---- MODULE Spec2Model ----
(***************************************************************************)
(* Session controller of the Everworker voice plugin                       *)
(* (EverworkerVoicePlugin), with the parts of its collaborators that the   *)
(* controller observes: the transport adapters (DDPAdapter, RESTAdapter)   *)
(* and the voice engine (WebRTCManager).                                   *)
(*                                                                         *)
(* JavaScript runs one callback to completion at a time, so every action   *)
(* below is one run-to-completion step: a public call up to its first      *)
(* await that really suspends, the continuation after such an await, a     *)
(* timer callback, or an event delivered by a collaborator.  The code of   *)
(* one step is composed from operators over a record `s` holding the       *)
(* controller's fields (Cur), and written back with Commit.                *)
(*                                                                         *)
(* Time is counted in milliseconds and advances in steps of TickMs.        *)
(***************************************************************************)
EXTENDS Integers, Sequences, FiniteSets, Bags, TLC

(***************************************************************************)
(* Bounds of the model.                                                    *)
(***************************************************************************)
\* messages appended in one behaviour
MaxAppends == 2
\* transport adapters constructed in one behaviour (one per connect attempt)
MaxAdapters == 2
\* startSession() calls that get past the "already active" guard
MaxStarts == 2
\* teardowns (cleanup() waits) in flight at the same time
MaxTeardowns == 2

(***************************************************************************)
(* Program constants.                                                      *)
(***************************************************************************)
MAX_MESSAGES == 100
DEFAULT_SESSION_TIMEOUT_MS == 900000
DEFAULT_IDLE_TIMEOUT_MS == 300000
SESSION_WARNING_BEFORE_MS == 60000
IDLE_GRACE_PERIOD_MS == 60000
DEFAULT_RECONNECT_INTERVAL == 5000
DEFAULT_MAX_RECONNECT_ATTEMPTS == 10
MAX_RECONNECT_DELAY == 30000

\* granularity of the clock: half of the grace period
TickMs == IDLE_GRACE_PERIOD_MS \div 2

\* a timer field holding null / no pending timeout
NoTimer == -1
\* the value of features.sessionTimeout that disables the hard timeout (null)
Disabled == -2
\* an option set to `undefined` by the host page
Undefined == -3
\* connection / webrtc field holding null
NoRef == 0

ConnectionState == {"disconnected", "connecting", "connected", "reconnecting", "error"}

VARIABLES
    config,               \* validated PluginConfig.features, fixed at construction
    state,                \* ConnectionState
    connection,           \* this.connection: NoRef or the id of an adapter
    webrtc,               \* this.webrtc: NoRef or the id of a voice engine
    adapters,             \* per adapter id: its status
    engines,              \* per engine id: its status, data channel, session, whether
                          \* session.created arrived, the type of the first event sent
                          \* on the channel and the session.update events sent
    messages,             \* this.messages
    nextId,               \* ordinal of the next message appended (ids are unique)
    reconnectAttempts,
    reconnectTimer,
    sessionActive,
    sessionId,
    sessionTimeoutTimer,
    sessionWarningTimer,
    idleTimeoutTimer,
    idleGracePeriodTimer,
    idleWarningShown,
    greetingListeners,    \* pending once('dataChannel:ready') greeting listeners
    tasks,                \* bag of suspended async calls
    starts,               \* startSession() calls that got past the guard
    \* observation of the last step and clocks
    lastOp,               \* [op, result] of the public call just made ("" otherwise)
    activity,             \* the step just taken was a qualifying activity
    emitted,              \* session events emitted by the step just taken, in order
    sent,                 \* delivery paths invoked by the step just taken
    sinceStarted,         \* ms since 'session:started', while a session timer is pending
    sinceActivity,        \* ms since the last activity or session start, while the
                          \* idle or the grace timer is pending
    lastSessionEvent,     \* the last of session:started / session:ended emitted
    warned,               \* 'session:timeout-warning' emitted since the last session:started
    stale,                \* the pending timers that were armed before the session now
                          \* active became active
    stateChanges,         \* the states passed to setState ('stateChange' events
                          \* emitted) by the step just taken, in order
    \* the EventEmitter base class, on its own
    events,               \* EventEmitter.events: the registered handlers, in insertion
                          \* order, each with the number of times it was invoked
    manager,              \* one WebRTCManager on its own: its data channel, its
                          \* isCleaningUp flag, the cleanup() calls suspended in their
                          \* wait, the tool calls and what was sent and emitted for them
    lastEmit,             \* observation of the emit() just made: the event, the
                          \* functions that throw, the functions invoked in order,
                          \* whether it threw to its caller
    \* further components, each on its own
    ddpAdapter,           \* one DDPAdapter: its socket, pendingCalls, the 30 s timers
                          \* of its method calls and how each call's promise settled
    audioPlayer,          \* the AudioContext clock and the AudioPlayer on it
    connectionWait        \* one waitForConnection(): the peer connection's state, the
                          \* promise, the 30 s ceiling and the pending 100 ms poll

vars == <<config, state, connection, webrtc, adapters, engines, messages, nextId,
          reconnectAttempts, reconnectTimer, sessionActive, sessionId,
          sessionTimeoutTimer, sessionWarningTimer, idleTimeoutTimer,
          idleGracePeriodTimer, idleWarningShown, greetingListeners, tasks, starts,
          lastOp, activity, emitted, sent, sinceStarted, sinceActivity, lastSessionEvent,
          warned, stale, stateChanges, events, lastEmit, manager,
          ddpAdapter, audioPlayer, connectionWait>>

\* the controller's own fields (everything but the observation variables)
progVars == <<config, state, connection, webrtc, adapters, engines, messages, nextId,
              reconnectAttempts, reconnectTimer, sessionActive, sessionId,
              sessionTimeoutTimer, sessionWarningTimer, idleTimeoutTimer,
              idleGracePeriodTimer, idleWarningShown, greetingListeners, tasks, starts>>

Ids == 1..MaxAdapters

\* tool calls a voice engine is asked to make
MaxToolCalls == 2

CallIds == 1..MaxToolCalls

\* microphone requests (startRecording calls) of a voice engine; the stream a
\* request obtains carries its number
MaxRequests == 2

RequestIds == 1..MaxRequests

\* a WebRTCManager after setupWebRTC: it holds its credential (this.session), a
\* peer connection with an empty audio sender and a data channel that is not
\* open yet.  `live` are the microphone streams whose track was not stopped,
\* `stopped` tells that stopRecording() or cleanup() completed and
\* startRecording() was not called since, `steps` lists what the step just taken
\* did, in order.
NewManager ==
    [dc |-> "connecting", isCleaningUp |-> FALSE, cleanups |-> 0,
     calls |-> [c \in CallIds |-> "none"],
     outputs |-> [c \in CallIds |-> <<>>],
     errors |-> 0, last |-> "",
     pc |-> TRUE, session |-> TRUE, mediaStream |-> NoRef, isRecording |-> FALSE,
     senderTrack |-> NoRef, live |-> {},
     requests |-> [r \in RequestIds |-> "none"],
     stopped |-> FALSE, steps |-> <<>>]

\* method calls made on one DDPAdapter
MaxMethodCalls == 2

MethodIds == 1..MaxMethodCalls

\* call(): `setTimeout(..., 30000)`
MethodTimeoutMs == 30000

\* granularity of the adapter's clock
MethodTickMs == 10000

\* a connected DDPAdapter that made no call: per call whether call() was made, whether
\* its message went out, whether its id is in pendingCalls, the age of its timeout
\* timer (NoTimer once it fired), and how its promise settled, in order
NewDDP ==
    [ws |-> "open",
     calls |-> [c \in MethodIds |->
                  [issued |-> FALSE, sent |-> FALSE, pending |-> FALSE,
                   timer |-> NoTimer, settled |-> <<>>]]]

\* chunks played on one AudioPlayer
MaxChunks == 3

\* the AudioContext clock stops here
MaxClockMs == 120

\* durations of the chunks (0: the data holds no sample, createBuffer throws) and
\* the advances of the clock between two calls, in ms
Durations == {0, 20, 50}

ClockSteps == {10, 40}

\* an AudioContext at time 0 and `audioPlayer: AudioPlayer | null = null`;
\* `scheduled` are the [start, end] of the chunks started, in order
NoPlayer ==
    [exists |-> FALSE, currentTime |-> 0, nextStartTime |-> 0, scheduled |-> <<>>,
     chunks |-> 0]

\* waitForConnection: `setTimeout(..., 30000)` and `setTimeout(checkConnection, 100)`
ConnectionTimeoutMs == 30000

PollIntervalMs == 100

\* a waitForConnection() not called yet on a new peer connection: the promise, the
\* age of the ceiling timer and of the pending poll (NoTimer: none pending)
NewWait ==
    [pc |-> "new", promise |-> "none", timeout |-> NoTimer, poll |-> NoTimer]

\* observation: the step being taken did this next
Do(m, step) == [m EXCEPT !.steps = Append(@, step)]

\* a call or callback begins: nothing observed yet
Begin(m) == [m EXCEPT !.last = "", !.steps = <<>>]

\* no emit() was made by the step just taken
NoEmit == [event |-> "", throwing |-> {}, invoked |-> <<>>, threw |-> FALSE]

NoId == [src |-> "none", n |-> 0]
ServerId(e) == [src |-> "server", n |-> e]
ClientId(k) == [src |-> "client", n |-> k]

NoSession == "none"

NewEngine ==
    [status |-> "unused", dc |-> FALSE, session |-> NoSession, created |-> FALSE,
     first |-> "", updates |-> 0]

Min(a, b) == IF a < b THEN a ELSE b
Max(a, b) == IF a > b THEN a ELSE b

RECURSIVE Pow2(_)
Pow2(n) == IF n = 0 THEN 1 ELSE 2 * Pow2(n - 1)


(***************************************************************************)
(* Configuration.  validateConfig fills in the defaults and keeps          *)
(* idleTimeout at most 80% of sessionTimeout unless the latter is null.    *)
(* The behaviours explored start from four validated configurations that   *)
(* between them switch every feature the controller reads on and off.      *)
(***************************************************************************)
Features(voice, reconnect, ddp, sessionTimeout, enableIdleCheck) ==
    [ voice |-> voice,                      \* features.voice
      reconnect |-> reconnect,              \* features.reconnect
      ddp |-> ddp,                          \* endpoint starts with "ws": DDPAdapter, else RESTAdapter
      sessionTimeout |-> sessionTimeout,
      idleTimeout |-> TickMs,
      enableIdleCheck |-> enableIdleCheck,
      reconnectInterval |-> DEFAULT_RECONNECT_INTERVAL,
      maxReconnectAttempts |-> 1 ]

Configs ==
    { Features(TRUE, FALSE, FALSE, 3 * TickMs, TRUE),
      Features(FALSE, TRUE, TRUE, 3 * TickMs, TRUE),
      Features(FALSE, FALSE, FALSE, 2 * TickMs, FALSE),
      Features(FALSE, FALSE, FALSE, Disabled, TRUE) }

\* variant of validateConfig: only an idle timeout above the session timeout is
\* adjusted
ValidateConfig_Strict(c) ==
    [c EXCEPT !.idleTimeout =
        IF /\ c.sessionTimeout \notin {Disabled, Undefined}
           /\ @ # Undefined
           /\ @ > c.sessionTimeout
        THEN (4 * c.sessionTimeout) \div 5
        ELSE @]

\* validateConfig on the features once the defaults are merged in: an idle
\* timeout not below the session timeout becomes Math.floor(sessionTimeout * 0.8)
ValidateConfig(c) ==
    [c EXCEPT !.idleTimeout =
        IF /\ c.sessionTimeout \notin {Disabled, Undefined}
           /\ @ # Undefined
           /\ @ >= c.sessionTimeout
        THEN (4 * c.sessionTimeout) \div 5
        ELSE @]

\* features?.idleTimeout || DEFAULT_IDLE_TIMEOUT_MS
IdleTimeoutMs ==
    IF config.idleTimeout \in {0, Undefined} THEN DEFAULT_IDLE_TIMEOUT_MS
    ELSE config.idleTimeout

\* sessionTimeout || DEFAULT_SESSION_TIMEOUT_MS (only read when not disabled)
SessionTimeoutMs ==
    IF config.sessionTimeout \in {0, Undefined} THEN DEFAULT_SESSION_TIMEOUT_MS
    ELSE config.sessionTimeout

\* features?.maxReconnectAttempts || 10
MaxReconnectAttempts ==
    IF config.maxReconnectAttempts = 0 THEN DEFAULT_MAX_RECONNECT_ATTEMPTS
    ELSE config.maxReconnectAttempts

\* Math.min(reconnectInterval * 2^attempts, 30000)
ReconnectDelay(attempts) ==
    Min((IF config.reconnectInterval = 0 THEN DEFAULT_RECONNECT_INTERVAL
         ELSE config.reconnectInterval) * Pow2(attempts), MAX_RECONNECT_DELAY)

(***************************************************************************)
(* The controller's fields as one record, so that the statements of a      *)
(* handler compose as function applications.                               *)
(***************************************************************************)
Cur ==
    [ state |-> state, connection |-> connection, webrtc |-> webrtc,
      adapters |-> adapters, engines |-> engines, messages |-> messages,
      nextId |-> nextId, reconnectAttempts |-> reconnectAttempts,
      reconnectTimer |-> reconnectTimer, sessionActive |-> sessionActive,
      sessionId |-> sessionId, sessionTimeoutTimer |-> sessionTimeoutTimer,
      sessionWarningTimer |-> sessionWarningTimer,
      idleTimeoutTimer |-> idleTimeoutTimer,
      idleGracePeriodTimer |-> idleGracePeriodTimer,
      idleWarningShown |-> idleWarningShown,
      greetingListeners |-> greetingListeners, tasks |-> tasks, starts |-> starts,
      result |-> "", activity |-> FALSE, emitted |-> <<>>, sent |-> <<>>,
      sinceStarted |-> sinceStarted, sinceActivity |-> sinceActivity,
      lastSessionEvent |-> lastSessionEvent, warned |-> warned, stale |-> stale,
      stateChanges |-> <<>> ]

RECURSIVE SumCopies(_, _)
SumCopies(S, B) ==
    IF S = {} THEN 0
    ELSE LET x == CHOOSE y \in S : TRUE
         IN  CopiesIn(x, B) + SumCopies(S \ {x}, B)

\* cleanup() waits in flight
Teardowns(s) == SumCopies({t \in BagToSet(s.tasks) : t.kind = "cleanup"}, s.tasks)

\* the timers of the four session timer fields that are pending
PendingTimers(s) ==
    {n \in {"warning", "timeout", "idle", "grace"} :
        (CASE n = "warning" -> s.sessionWarningTimer
           [] n = "timeout" -> s.sessionTimeoutTimer
           [] n = "idle" -> s.idleTimeoutTimer
           [] n = "grace" -> s.idleGracePeriodTimer) # NoTimer}

\* observation: the timers named were armed just now
Armed(s, names) == [s EXCEPT !.stale = @ \ names]

Commit(s, op) ==
    /\ s.nextId - 1 <= MaxAppends
    /\ Teardowns(s) <= MaxTeardowns
    /\ state' = s.state
    /\ connection' = s.connection
    /\ webrtc' = s.webrtc
    /\ adapters' = s.adapters
    /\ engines' = s.engines
    /\ messages' = s.messages
    /\ nextId' = s.nextId
    /\ reconnectAttempts' = s.reconnectAttempts
    /\ reconnectTimer' = s.reconnectTimer
    /\ sessionActive' = s.sessionActive
    /\ sessionId' = s.sessionId
    /\ sessionTimeoutTimer' = s.sessionTimeoutTimer
    /\ sessionWarningTimer' = s.sessionWarningTimer
    /\ idleTimeoutTimer' = s.idleTimeoutTimer
    /\ idleGracePeriodTimer' = s.idleGracePeriodTimer
    /\ idleWarningShown' = s.idleWarningShown
    /\ greetingListeners' = s.greetingListeners
    /\ tasks' = s.tasks
    /\ starts' = s.starts
    /\ lastOp' = [op |-> op, result |-> IF op = "" THEN "" ELSE s.result]
    /\ activity' = s.activity
    /\ emitted' = s.emitted
    /\ sent' = s.sent
    /\ sinceStarted' = IF s.sessionTimeoutTimer = NoTimer /\ s.sessionWarningTimer = NoTimer
                       THEN 0 ELSE s.sinceStarted
    /\ sinceActivity' = IF s.idleTimeoutTimer = NoTimer /\ s.idleGracePeriodTimer = NoTimer
                        THEN 0 ELSE s.sinceActivity
    /\ lastSessionEvent' = s.lastSessionEvent
    /\ warned' = s.warned
    /\ stale' = s.stale \cap PendingTimers(s)
    /\ stateChanges' = s.stateChanges
    /\ UNCHANGED <<config, events, lastEmit, manager, ddpAdapter, audioPlayer, connectionWait>>

\* who awaits a suspended call: the n-th startSession(), an endSession(), or the
\* reconnect timer's callback
Caller(op, n) == [op |-> op, n |-> n]

Task(kind, id, caller) == [kind |-> kind, id |-> id, caller |-> caller]
AddTask(s, t) == [s EXCEPT !.tasks = @ (+) SetToBag({t})]
DropTask(s, t) == [s EXCEPT !.tasks = @ (-) SetToBag({t})]

(***************************************************************************)
(* EventEmitter.emit as far as the session events go.                      *)
(***************************************************************************)
SessionEvents ==
    {"session:started", "session:ended", "session:timeout-warning", "session:timeout",
     "session:idle-warning", "session:idle-timeout"}

Emit(s, ev) ==
    LET e == IF ev \in SessionEvents THEN [s EXCEPT !.emitted = Append(@, ev)] ELSE s
    IN  CASE ev = "session:started" ->
                [e EXCEPT !.lastSessionEvent = "started", !.sinceStarted = 0,
                          !.sinceActivity = 0, !.warned = FALSE]
          [] ev = "session:ended" -> [e EXCEPT !.lastSessionEvent = "ended"]
          [] ev = "session:timeout-warning" -> [e EXCEPT !.warned = TRUE]
          [] OTHER -> e

SetState(s, st) == [s EXCEPT !.state = st, !.stateChanges = Append(@, st)]

(***************************************************************************)
(* Timers.                                                                 *)
(***************************************************************************)
ClearReconnectTimer(s) == [s EXCEPT !.reconnectTimer = NoTimer]

ClearSessionTimeout(s) ==
    [s EXCEPT !.sessionWarningTimer = NoTimer, !.sessionTimeoutTimer = NoTimer]

ClearIdleTimeout(s) ==
    [s EXCEPT !.idleTimeoutTimer = NoTimer, !.idleGracePeriodTimer = NoTimer]

SetupSessionTimeout(s) ==
    LET c == ClearSessionTimeout(s)
        warningMs == SessionTimeoutMs - SESSION_WARNING_BEFORE_MS
    IN  IF config.sessionTimeout = Disabled THEN c
        ELSE Armed([c EXCEPT !.sessionWarningTimer = IF warningMs > 0 THEN warningMs ELSE @,
                             !.sessionTimeoutTimer = SessionTimeoutMs],
                   {"warning", "timeout"})

SetupIdleTimeout(s) ==
    IF ~config.enableIdleCheck THEN s
    ELSE Armed([ClearIdleTimeout(s) EXCEPT !.idleWarningShown = FALSE,
                                           !.idleTimeoutTimer = IdleTimeoutMs],
               {"idle", "grace"})

\* variant: the grace timer is cancelled but the idle timer is left running
ResetActivity_NoRearm(s) ==
    IF ~s.sessionActive THEN s
    ELSE IF ~config.enableIdleCheck THEN s
    ELSE [s EXCEPT !.idleWarningShown = FALSE,
                   !.idleGracePeriodTimer = NoTimer]

\* variant: activity also restarts the session timers
ResetActivity_RearmsSession(s) ==
    IF ~s.sessionActive THEN s
    ELSE IF ~config.enableIdleCheck THEN s
    ELSE [SetupSessionTimeout(s) EXCEPT !.idleWarningShown = FALSE,
                                        !.idleGracePeriodTimer = NoTimer,
                                        !.idleTimeoutTimer = IdleTimeoutMs]

ResetActivity(s) ==
    IF ~s.sessionActive THEN s
    ELSE IF ~config.enableIdleCheck THEN s
    ELSE Armed([s EXCEPT !.idleWarningShown = FALSE,
                         !.idleGracePeriodTimer = NoTimer,
                         !.idleTimeoutTimer = IdleTimeoutMs],
               {"idle", "grace"})

(***************************************************************************)
(* Message history.  The UI, the storage helper and the fire-and-forget    *)
(* backend logging hold no controller state.                               *)
(***************************************************************************)
Message(type, content, source, automated) ==
    [id |-> 0, type |-> type, content |-> content, source |-> source,
     automated |-> automated]

\* variant: the history is never trimmed
AddMessage_NoEvict(s, m) ==
    [s EXCEPT !.messages = Append(@, [m EXCEPT !.id = s.nextId]), !.nextId = @ + 1]

AddMessage(s, m) ==
    LET pushed == Append(s.messages, [m EXCEPT !.id = s.nextId])
        excess == Len(pushed) - MAX_MESSAGES
        kept == IF Len(pushed) > MAX_MESSAGES
                THEN SubSeq(pushed, excess + 1, Len(pushed))
                ELSE pushed
    IN  [s EXCEPT !.messages = kept, !.nextId = @ + 1]

\* StorageManager.saveMessages: what is written for a history
Stored(msgs) ==
    IF Len(msgs) > 100 THEN SubSeq(msgs, Len(msgs) - 100 + 1, Len(msgs)) ELSE msgs

\* observation: the step is a qualifying activity of an active session
Active(s) ==
    IF s.sessionActive THEN [s EXCEPT !.activity = TRUE, !.sinceActivity = 0] ELSE s

\* variant: the grace timer runs for the idle period instead of 60 s
HandleIdleWarning_LongGrace(s) ==
    LET a == AddMessage([s EXCEPT !.idleWarningShown = TRUE],
                        Message("assistant", "idle-check", "text", TRUE))
    IN  [Emit(a, "session:idle-warning") EXCEPT
            !.idleGracePeriodTimer = IdleTimeoutMs]

HandleIdleWarning(s) ==
    LET a == AddMessage([s EXCEPT !.idleWarningShown = TRUE],
                        Message("assistant", "idle-check", "text", TRUE))
    IN  Armed([Emit(a, "session:idle-warning") EXCEPT
                  !.idleGracePeriodTimer = IDLE_GRACE_PERIOD_MS],
              {"grace"})

\* variant: every message that is not automated counts as activity
HandleMessage_AnyRole(s, m) ==
    LET a == AddMessage(s, m)
    IN  IF ~m.automated THEN ResetActivity(Active(a)) ELSE a

HandleMessage(s, m) ==
    LET a == AddMessage(s, m)
    IN  IF m.type = "assistant" /\ ~m.automated THEN ResetActivity(Active(a)) ELSE a

(***************************************************************************)
(* The voice engine's data channel.  Of the events sent on it, `first` is  *)
(* the type of the first and `updates` counts the session.update events    *)
(* (tool-call results are not modelled).                                   *)
(***************************************************************************)
\* sendEvent: dataChannel.send if the channel is open, else only a log line
SendEvent(s, e, type) ==
    IF s.engines[e].dc
    THEN [s EXCEPT !.engines[e].first = IF @ = "" THEN type ELSE @,
                   !.engines[e].updates = IF type = "session.update" THEN @ + 1 ELSE @]
    ELSE s

\* sendSessionUpdate: nothing without this.session or an open channel
SendSessionUpdate(s, e) ==
    IF s.engines[e].session = NoSession \/ ~s.engines[e].dc THEN s
    ELSE SendEvent(s, e, "session.update")

\* sendStopEvents
SendStopEvents(s, e) ==
    SendEvent(SendEvent(s, e, "input_audio_buffer.clear"), e, "output_audio_buffer.clear")

\* sendTextMessage past its guard
SendTextMessage(s, e) ==
    SendEvent(SendEvent(s, e, "conversation.item.create"), e, "response.create")

\* variant: the configuration is sent as soon as the channel opens
OnOpen_SendsUpdate(s, e) ==
    [s EXCEPT !.engines[e].dc = TRUE, !.engines[e].first = "session.update",
              !.engines[e].updates = @ + 1]

\* dataChannel.onopen, before the readiness signal is emitted
OnOpen(s, e) == [s EXCEPT !.engines[e].dc = TRUE]

\* handleRealtimeEvent, case 'session.created'
HandleSessionCreated(s, e) ==
    SendSessionUpdate([s EXCEPT !.engines[e].created = TRUE], e)

(***************************************************************************)
(* sendMessage: `result` is "ok" or the message of the Error thrown;       *)
(* `sent` lists the delivery paths invoked.                                *)
(***************************************************************************)
\* variant: the connection state is not checked
SendMessage_NoStateCheck(s, text) ==
    IF ~s.sessionActive THEN [s EXCEPT !.result = "Please start a session first"]
    ELSE
      LET a == ResetActivity(AddMessage(Active(s), Message("user", text, "text", FALSE)))
      IN  IF a.webrtc # NoRef
          THEN IF a.engines[a.webrtc].dc
               THEN [SendTextMessage(a, a.webrtc) EXCEPT
                        !.sent = Append(@, "webrtc"), !.result = "ok"]
               ELSE [a EXCEPT !.result = "Data channel not ready for sending messages"]
          ELSE IF a.connection # NoRef
          THEN [a EXCEPT !.sent = Append(@, "adapter"),
                         !.result = "Text messages are only supported through WebRTC"]
          ELSE [a EXCEPT !.result = "No communication channel available"]

\* variant: the message is appended, and the activity recorded, only once the
\* delivery has succeeded
SendMessage_DeliverFirst(s, text) ==
    IF ~s.sessionActive THEN [s EXCEPT !.result = "Please start a session first"]
    ELSE IF s.state # "connected" THEN [s EXCEPT !.result = "Not connected"]
    ELSE IF s.webrtc # NoRef
         THEN IF s.engines[s.webrtc].dc
              THEN LET a == ResetActivity(AddMessage(Active(s),
                                Message("user", text, "text", FALSE)))
                   IN  [SendTextMessage(a, a.webrtc) EXCEPT
                           !.sent = Append(@, "webrtc"), !.result = "ok"]
              ELSE [s EXCEPT !.result = "Data channel not ready for sending messages"]
         ELSE IF s.connection # NoRef
         THEN [s EXCEPT !.sent = Append(@, "adapter"),
                        !.result = "Text messages are only supported through WebRTC"]
         ELSE [s EXCEPT !.result = "No communication channel available"]

SendMessage(s, text) ==
    IF ~s.sessionActive THEN [s EXCEPT !.result = "Please start a session first"]
    ELSE IF s.state # "connected" THEN [s EXCEPT !.result = "Not connected"]
    ELSE
      LET a == ResetActivity(AddMessage(Active(s), Message("user", text, "text", FALSE)))
      IN  IF a.webrtc # NoRef
          THEN IF a.engines[a.webrtc].dc
               THEN [SendTextMessage(a, a.webrtc) EXCEPT
                        !.sent = Append(@, "webrtc"), !.result = "ok"]
               ELSE [a EXCEPT !.result = "Data channel not ready for sending messages"]
          ELSE IF a.connection # NoRef
          THEN [a EXCEPT !.sent = Append(@, "adapter"),
                         !.result = "Text messages are only supported through WebRTC"]
          ELSE [a EXCEPT !.result = "No communication channel available"]

(***************************************************************************)
(* Reconnection.                                                           *)
(***************************************************************************)
\* variant: the attempts are not capped
HandleReconnect_NoCap(s) ==
    IF ~config.reconnect THEN s
    ELSE [SetState(ClearReconnectTimer(s), "reconnecting") EXCEPT
            !.reconnectTimer = ReconnectDelay(s.reconnectAttempts)]

HandleReconnect(s) ==
    IF ~config.reconnect THEN s
    ELSE IF s.reconnectAttempts >= MaxReconnectAttempts THEN SetState(s, "error")
    ELSE [SetState(ClearReconnectTimer(s), "reconnecting") EXCEPT
            !.reconnectTimer = ReconnectDelay(s.reconnectAttempts)]

\* variant: the transport loss goes to the reconnect without setState('disconnected')
HandleDisconnect_Direct(s) == HandleReconnect(s)

\* variant: a transport loss also ends the session
HandleDisconnect_EndsSession(s) ==
    HandleReconnect(SetState(ClearIdleTimeout([s EXCEPT !.sessionActive = FALSE]),
                             "disconnected"))

HandleDisconnect(s) == HandleReconnect(SetState(s, "disconnected"))

(***************************************************************************)
(* Teardown.  WebRTCManager.cleanup suspends (200 ms) only when its data   *)
(* channel is open; its remaining steps and the rest of disconnect() and   *)
(* endSession() then run in one step (CleanupDone).                        *)
(***************************************************************************)
\* WebRTCManager.cleanup after its wait: peer connection and data channel closed,
\* session cleared
EngineCleanupFinish(s, e) ==
    IF e = NoRef THEN s
    ELSE [s EXCEPT !.engines[e] = [NewEngine EXCEPT !.status = "closed"]]

\* DDPAdapter.disconnect / RESTAdapter.disconnect on this.connection.
\* REST emits 'disconnect' synchronously, to the controller's own handler;
\* DDP closes the socket, whose onclose emits it later (AdapterClosed).
AdapterDisconnect(s, a) ==
    IF a = NoRef THEN s
    ELSE IF config.ddp
    THEN [s EXCEPT !.adapters[a] = IF @ \in {"connecting", "connected"}
                                   THEN "closing" ELSE @]
    ELSE HandleDisconnect([s EXCEPT !.adapters[a] = "closed"])

\* disconnect() from after `await this.webrtc.cleanup()` to its end
DisconnectFinish(s) ==
    LET a == AdapterDisconnect([s EXCEPT !.webrtc = NoRef], s.connection)
    IN  SetState([a EXCEPT !.connection = NoRef], "disconnected")

\* endSession() after `await this.disconnect()`
EndSessionFinish(s) ==
    Emit([s EXCEPT !.sessionActive = FALSE, !.sessionId = NoId], "session:ended")

\* does cleanup() of the current engine suspend?
CleanupWaits(s) == s.webrtc # NoRef /\ s.engines[s.webrtc].dc

\* disconnect(): when cleanup() does not suspend, the rest of the caller runs in
\* the same step
Disconnect(s, caller) ==
    LET c == ClearReconnectTimer(s)
    IN  IF CleanupWaits(c)
        THEN AddTask(SendStopEvents(c, c.webrtc), Task("cleanup", c.webrtc, caller))
        ELSE LET d == DisconnectFinish(EngineCleanupFinish(c, c.webrtc))
             IN  IF caller.op = "endSession" THEN EndSessionFinish(d) ELSE d

\* an event emitted by the caller between the call and its continuation
EmitIf(s, ev) == IF ev = "" THEN s ELSE Emit(s, ev)

\* endSession(): `ev` is what a timer callback emits right after calling it
\* (the call returns at its first await, before the teardown continues)
\* variant: the teardown runs whether or not a session is active
EndSession_NoGuard(s, ev) ==
    LET c == [ClearIdleTimeout(ClearSessionTimeout(s)) EXCEPT
                  !.idleWarningShown = FALSE]
    IN  Disconnect(EmitIf([c EXCEPT !.result = "ended"], ev), Caller("endSession", 0))

EndSession(s, ev) ==
    IF ~s.sessionActive THEN EmitIf([s EXCEPT !.result = "no-op"], ev)
    ELSE
      LET c == [ClearIdleTimeout(ClearSessionTimeout(s)) EXCEPT
                    !.idleWarningShown = FALSE]
      IN  Disconnect(EmitIf([c EXCEPT !.result = "ended"], ev), Caller("endSession", 0))

(***************************************************************************)
(* Session start.                                                          *)
(***************************************************************************)
\* sendGreetingWhenReady: send 'hi' now if the data channel is open (a failure is
\* only logged), else wait for 'dataChannel:ready' with a once-listener
SendGreetingWhenReady(s) ==
    IF s.webrtc # NoRef /\ s.engines[s.webrtc].dc
    THEN [SendMessage(s, "hi") EXCEPT !.result = s.result]
    ELSE [s EXCEPT !.greetingListeners = @ + 1]

\* startSession() after the microphone attempt: arm the timers, announce, greet
SessionArm(s) ==
    SendGreetingWhenReady(
        Emit(SetupIdleTimeout(SetupSessionTimeout(s)), "session:started"))

\* startSession() after connect() resolved, up to the microphone attempt.
\* startVoiceInput throws at once without an engine; otherwise it awaits the
\* microphone (task "mic").
SessionBegin(s, caller) ==
    LET sess == IF s.webrtc # NoRef THEN s.engines[s.webrtc].session ELSE NoSession
        a == [s EXCEPT !.sessionId = IF sess = "sid" THEN ServerId(s.webrtc)
                                     ELSE ClientId(caller.n),
                       !.sessionActive = TRUE,
                       !.stale = IF s.sessionActive THEN @ ELSE PendingTimers(s),
                       !.result = "started"]
    IN  IF a.webrtc = NoRef THEN SessionArm(a)
        ELSE AddTask(a, Task("mic", a.webrtc, caller))

\* connect() once the adapter is connected and voice is initialised or skipped
ConnectSucceeded(s, caller) ==
    LET c == [SetState(s, "connected") EXCEPT !.reconnectAttempts = 0]
    IN  IF caller.op = "startSession" THEN SessionBegin(c, caller) ELSE c

\* clearMessages()
ClearMessages(s) == [s EXCEPT !.messages = <<>>]

\* variant: a failed connect also empties the history
ConnectFailed_Clears(s, caller) ==
    LET c == ClearMessages(HandleReconnect(SetState(s, "error")))
    IN  IF caller.op = "startSession"
        THEN [c EXCEPT !.sessionActive = FALSE, !.result = "connect failed"]
        ELSE c

\* connect() when adapter.connect() rejected; startSession's catch clears the flag
ConnectFailed(s, caller) ==
    LET c == HandleReconnect(SetState(s, "error"))
    IN  IF caller.op = "startSession"
        THEN [c EXCEPT !.sessionActive = FALSE, !.result = "connect failed"]
        ELSE c

\* the id the next adapter gets
FreshAdapter(s) == 1 + Cardinality({a \in Ids : s.adapters[a] # "unused"})

\* connect(): a no-op while connecting or connected, else a new adapter whose
\* connect() is awaited (task "adapter")
Connect(s, caller) ==
    IF s.state \in {"connecting", "connected"}
    THEN IF caller.op = "startSession" THEN SessionBegin(s, caller) ELSE s
    ELSE LET a == FreshAdapter(s)
         IN  AddTask([SetState(s, "connecting") EXCEPT
                          !.connection = a, !.adapters[a] = "connecting"],
                     Task("adapter", a, caller))

ConnectAllowed(s) ==
    s.state \in {"connecting", "connected"} \/ FreshAdapter(s) <= MaxAdapters

(***************************************************************************)
(* Initial state: after construction and init(), with nothing persisted.   *)
(***************************************************************************)
InitWith(cfgs, history) ==
    /\ config \in cfgs
    /\ state = "disconnected"
    /\ connection = NoRef
    /\ webrtc = NoRef
    /\ adapters = [a \in Ids |-> "unused"]
    /\ engines = [e \in Ids |-> NewEngine]
    /\ messages = history
    /\ nextId = 1
    /\ reconnectAttempts = 0
    /\ reconnectTimer = NoTimer
    /\ sessionActive = FALSE
    /\ sessionId = NoId
    /\ sessionTimeoutTimer = NoTimer
    /\ sessionWarningTimer = NoTimer
    /\ idleTimeoutTimer = NoTimer
    /\ idleGracePeriodTimer = NoTimer
    /\ idleWarningShown = FALSE
    /\ greetingListeners = 0
    /\ tasks = EmptyBag
    /\ starts = 0
    /\ lastOp = [op |-> "", result |-> ""]
    /\ activity = FALSE
    /\ emitted = <<>>
    /\ sent = <<>>
    /\ sinceStarted = 0
    /\ sinceActivity = 0
    /\ lastSessionEvent = "none"
    /\ warned = FALSE
    /\ stale = {}
    /\ stateChanges = <<>>
    /\ events = <<>>
    /\ lastEmit = NoEmit
    /\ manager = NewManager
    /\ ddpAdapter = NewDDP
    /\ audioPlayer = NoPlayer
    /\ connectionWait = NewWait

Init == InitWith(Configs, <<>>)

(***************************************************************************)
(* Public calls.                                                           *)
(***************************************************************************)
StartSession ==
    \E clearHistory \in BOOLEAN :
        IF sessionActive
        THEN Commit([Cur EXCEPT !.result = "already active"], "startSession")
        ELSE /\ starts < MaxStarts
             /\ LET s0 == [Cur EXCEPT !.starts = @ + 1]
                    s1 == IF clearHistory THEN ClearMessages(s0) ELSE s0
                IN  /\ ConnectAllowed(s1)
                    /\ Commit(Connect(s1, Caller("startSession", s1.starts)),
                              "startSession")

EndSessionCall == Commit(EndSession(Cur, ""), "endSession")

SendMessageCall == Commit(SendMessage(Cur, "text"), "sendMessage")

ResetIdleTimer ==
    Commit(IF ~sessionActive THEN [Cur EXCEPT !.result = "no-op"]
           ELSE [ResetActivity(Active(Cur)) EXCEPT !.result = "reset"],
           "resetIdleTimer")

(***************************************************************************)
(* Continuations of connect().                                             *)
(***************************************************************************)
\* adapter.connect() resolved: construct and initialise the voice engine if voice
\* is enabled (the previous engine reference is overwritten), else finish connect()
AdapterConnected ==
    \E t \in BagToSet(tasks) :
        /\ t.kind = "adapter"
        /\ adapters[t.id] = "connecting" \/ (~config.ddp /\ adapters[t.id] = "closed")
        /\ LET s0 == DropTask(Cur, t)
               s1 == [s0 EXCEPT !.adapters[t.id] =
                                    IF @ = "connecting" THEN "connected" ELSE @]
           IN  IF config.voice
               THEN Commit(AddTask([s1 EXCEPT
                                      !.webrtc = t.id,
                                      !.engines[t.id] = [NewEngine EXCEPT
                                          !.status = IF s1.connection = NoRef
                                                     THEN "nokey" ELSE "key"]],
                                   Task("voice", t.id, t.caller)),
                           "")
               ELSE Commit(ConnectSucceeded(s1, t.caller), "")

\* adapter.connect() rejected.  A DDP socket that failed also closes (onclose
\* comes later); a REST adapter only reports the error.
AdapterRejected ==
    \E t \in BagToSet(tasks) :
        /\ t.kind = "adapter"
        /\ config.ddp => adapters[t.id] \in {"connecting", "closing"}
        /\ LET s0 == DropTask(Cur, t)
               s1 == [s0 EXCEPT !.adapters[t.id] =
                                    IF config.ddp
                                    THEN (IF @ = "closed" THEN @ ELSE "closing")
                                    ELSE "closed"]
           IN  Commit(ConnectFailed(s1, t.caller), "")

(***************************************************************************)
(* Voice engine.                                                           *)
(***************************************************************************)
\* getEphemeralKey resolved: this.session is set, with or without a sessionId
EngineKey ==
    \E e \in Ids, sess \in {"sid", "nosid"} :
        /\ engines[e].status = "key"
        /\ Commit([Cur EXCEPT !.engines[e] = [@ EXCEPT !.status = "negotiating",
                                                        !.session = sess]],
                  "")

\* webrtc.initialize() resolved
EngineReady ==
    \E t \in BagToSet(tasks) :
        /\ t.kind = "voice"
        /\ engines[t.id].status = "negotiating"
        /\ LET s0 == DropTask(Cur, t)
               s1 == [s0 EXCEPT !.engines[t.id] = [@ EXCEPT !.status = "ready"]]
           IN  Commit(ConnectSucceeded(s1, t.caller), "")

\* webrtc.initialize() rejected (before the data channel opened): the engine
\* cleans itself up, initializeVoice swallows the error and connect() goes on
EngineFailed ==
    \E t \in BagToSet(tasks) :
        /\ t.kind = "voice"
        /\ ~engines[t.id].dc
        /\ LET s0 == EngineCleanupFinish(DropTask(Cur, t), t.id)
           IN  Commit(ConnectSucceeded(s0, t.caller), "")

RECURSIVE Greetings(_, _)
\* the once-listeners registered by sendGreetingWhenReady, each run once
Greetings(s, k) ==
    IF k = 0 THEN s
    ELSE Greetings([SendMessage(s, "hi") EXCEPT !.result = s.result], k - 1)

\* dataChannel.onopen: 'dataChannel:ready' is re-emitted by the controller
DataChannelOpen ==
    \E e \in Ids :
        /\ engines[e].status \in {"negotiating", "ready"}
        /\ ~engines[e].dc
        /\ LET s0 == Emit(OnOpen(Cur, e), "dataChannel:ready")
               s1 == Greetings([s0 EXCEPT !.greetingListeners = 0],
                               s0.greetingListeners)
           IN  Commit(s1, "")

\* dataChannel.onmessage with the server's 'session.created' (once per channel)
SessionCreated ==
    \E e \in Ids :
        /\ engines[e].dc
        /\ ~engines[e].created
        /\ Commit(HandleSessionCreated(Cur, e), "")

\* a 'message' event of an engine (a final user transcript or an assistant
\* response), delivered to handleMessage
EngineMessage ==
    \E e \in Ids, type \in {"user", "assistant"} :
        /\ engines[e].dc
        /\ Commit(HandleMessage(Cur, Message(type, "speech", "voice", FALSE)),
                  "")

\* 'speech:start' of an engine
SpeechStart ==
    \E e \in Ids :
        /\ engines[e].dc
        /\ Commit(ResetActivity(IF sessionActive THEN Active(Cur) ELSE Cur), "")

\* startVoiceInput() settled inside startSession(); either way the session goes on
MicDone ==
    \E t \in BagToSet(tasks) :
        /\ t.kind = "mic"
        /\ Commit(SessionArm(DropTask(Cur, t)), "")

\* variant: a microphone failure reaches startSession's outer catch
MicRejected_Fatal(s, t) == [DropTask(s, t) EXCEPT !.sessionActive = FALSE]

\* startVoiceInput() rejected: the inner catch of startSession logs a warning and
\* startSession goes on
MicRejected(s, t) == SessionArm(DropTask(s, t))

MicFailed ==
    \E t \in BagToSet(tasks) :
        /\ t.kind = "mic"
        /\ Commit(MicRejected(Cur, t), "")

\* the 200 ms wait of cleanup() elapsed: rest of cleanup(), disconnect() and of
\* the endSession() that called it
CleanupDone ==
    \E t \in BagToSet(tasks) :
        /\ t.kind = "cleanup"
        /\ LET s0 == DisconnectFinish(EngineCleanupFinish(DropTask(Cur, t), t.id))
           IN  Commit(IF t.caller.op = "endSession" THEN EndSessionFinish(s0) ELSE s0,
                      "")

(***************************************************************************)
(* Transport.                                                              *)
(***************************************************************************)
\* ws.onclose of a DDP adapter (socket lost, or closed by disconnect()): the
\* adapter emits 'disconnect' to handleDisconnect
AdapterClosed ==
    \E a \in Ids :
        /\ config.ddp
        /\ adapters[a] \in {"connecting", "connected", "closing"}
        /\ Commit(HandleDisconnect([Cur EXCEPT !.adapters[a] = "closed"]),
                  "")

(***************************************************************************)
(* Timers.  A timer field holds the milliseconds left; a timer that is due *)
(* (0 left) fires before the clock advances.  The reconnect delay (at most *)
(* 30 s) and the 200 ms cleanup wait are shorter than a tick: they elapse  *)
(* before the clock advances.                                              *)
(***************************************************************************)
Elapse(t) == IF t = NoTimer THEN t ELSE Max(0, t - TickMs)

SessionClockCap ==
    IF config.sessionTimeout = Disabled THEN 0 ELSE SessionTimeoutMs

IdleClockCap ==
    IF config.enableIdleCheck THEN IdleTimeoutMs + IDLE_GRACE_PERIOD_MS ELSE 0

Tick ==
    /\ sessionTimeoutTimer # 0
    /\ sessionWarningTimer # 0
    /\ idleTimeoutTimer # 0
    /\ idleGracePeriodTimer # 0
    /\ reconnectTimer = NoTimer
    /\ \A t \in BagToSet(tasks) : t.kind # "cleanup"
    /\ Commit([Cur EXCEPT !.sessionTimeoutTimer = Elapse(@),
                          !.sessionWarningTimer = Elapse(@),
                          !.idleTimeoutTimer = Elapse(@),
                          !.idleGracePeriodTimer = Elapse(@),
                          !.sinceStarted = Min(@ + TickMs, SessionClockCap),
                          !.sinceActivity = Min(@ + TickMs, IdleClockCap)],
              "")

\* callback of sessionWarningTimer
SessionWarningFire ==
    /\ sessionWarningTimer = 0
    /\ LET s0 == [Cur EXCEPT !.sessionWarningTimer = NoTimer]
       IN  Commit(IF s0.sessionActive THEN Emit(s0, "session:timeout-warning") ELSE s0,
                  "")

\* callback of sessionTimeoutTimer
SessionTimeoutFire ==
    /\ sessionTimeoutTimer = 0
    /\ LET s0 == [Cur EXCEPT !.sessionTimeoutTimer = NoTimer]
       IN  Commit(IF s0.sessionActive THEN EndSession(s0, "session:timeout") ELSE s0,
                  "")

\* callback of idleTimeoutTimer
IdleFire ==
    /\ idleTimeoutTimer = 0
    /\ LET s0 == [Cur EXCEPT !.idleTimeoutTimer = NoTimer]
       IN  Commit(IF s0.sessionActive /\ ~s0.idleWarningShown
                  THEN HandleIdleWarning(s0) ELSE s0,
                  "")

\* callback of idleGracePeriodTimer
GraceFire ==
    /\ idleGracePeriodTimer = 0
    /\ LET s0 == [Cur EXCEPT !.idleGracePeriodTimer = NoTimer]
       IN  Commit(IF s0.sessionActive /\ s0.idleWarningShown
                  THEN EndSession(s0, "session:idle-timeout") ELSE s0,
                  "")

\* callback of reconnectTimer
ReconnectFire ==
    /\ reconnectTimer # NoTimer
    /\ LET s0 == [Cur EXCEPT !.reconnectTimer = NoTimer, !.reconnectAttempts = @ + 1]
       IN  /\ ConnectAllowed(s0)
           /\ Commit(Connect(s0, Caller("timer", 0)), "")

Next ==
    \/ StartSession
    \/ EndSessionCall
    \/ SendMessageCall
    \/ ResetIdleTimer
    \/ AdapterConnected
    \/ AdapterRejected
    \/ EngineKey
    \/ EngineReady
    \/ EngineFailed
    \/ DataChannelOpen
    \/ EngineMessage
    \/ SpeechStart
    \/ MicDone
    \/ MicFailed
    \/ CleanupDone
    \/ AdapterClosed
    \/ Tick
    \/ SessionWarningFire
    \/ SessionTimeoutFire
    \/ IdleFire
    \/ GraceFire
    \/ ReconnectFire

Spec == Init /\ [][Next]_vars

(***************************************************************************)
(* The controller together with the voice engine's handling of the         *)
(* server's events on the data channel.                                    *)
(***************************************************************************)
NextEngine ==
    \/ Next
    \/ SessionCreated

SpecEngine == Init /\ [][NextEngine]_vars

(***************************************************************************)
(* A page load that finds a history persisted by an earlier one: init()    *)
(* loads what saveMessages wrote, here one entry short of the cap.         *)
(***************************************************************************)
Persisted(n) ==
    [i \in 1..n |-> [Message("user", "earlier", "text", FALSE) EXCEPT !.id = i - n]]

InitHistory == InitWith(Configs, Stored(Persisted(MAX_MESSAGES - 1)))

SpecHistory == InitHistory /\ [][Next]_vars

TypeOK ==
    /\ state \in ConnectionState
    /\ connection \in {NoRef} \cup Ids
    /\ webrtc \in {NoRef} \cup Ids
    /\ Len(messages) <= MAX_MESSAGES

Range(seq) == {seq[i] : i \in 1..Len(seq)}

Count(seq, x) == Cardinality({i \in 1..Len(seq) : seq[i] = x})

\* the entries of msgs are the Len(msgs) most recently appended ones, oldest first
\* (ids are the ordinals of the appends, `next` the ordinal of the next one)
MostRecent(msgs, next) ==
    \A i \in 1..Len(msgs) : msgs[i].id = next - Len(msgs) + i - 1

\* C1: the history never holds more than 100 entries; it always consists of the
\* most recently appended messages in the order they were appended, and a step
\* that appends k messages leaves min(100, previous length + k) entries.
C1_HistoryBounded ==
    [][ /\ Len(messages') <= 100
        /\ MostRecent(messages', nextId')
        /\ nextId' > nextId =>
               Len(messages') = Min(100, Len(messages) + (nextId' - nextId)) ]_vars

\* an append evicted the oldest entry of a full history
C1_Witness ==
    /\ Len(messages) = 100
    /\ nextId = 3
    /\ messages[1].id = -97
    /\ messages[100].id = 2

\* C2: sendMessage with no active session fails with 'Please start a session
\* first', and with an active session whose state is not connected fails with
\* 'Not connected'; in both cases the history is unchanged, nothing is sent and the
\* idle timers are not touched.
C2_SendPreconditions ==
    [][ lastOp'.op = "sendMessage" =>
          /\ ~sessionActive => lastOp'.result = "Please start a session first"
          /\ (sessionActive /\ state # "connected") => lastOp'.result = "Not connected"
          /\ (~sessionActive \/ state # "connected") =>
                /\ UNCHANGED <<messages, nextId>>
                /\ sent' = <<>>
                /\ ~activity'
                /\ UNCHANGED <<idleTimeoutTimer, idleGracePeriodTimer, idleWarningShown>> ]_vars

\* a send rejected as not connected, in an active session whose idle timer is due
C2_Witness ==
    /\ lastOp = [op |-> "sendMessage", result |-> "Not connected"]
    /\ sessionActive
    /\ idleTimeoutTimer = 0

\* C3: a sendMessage in an active session with state connected, where a transport
\* adapter exists and the voice data channel is not open (no engine, or an engine
\* whose channel is closed), is delivered through the adapter's sendMessage and
\* does not fail on the voice path.
C3_FallbackToTransport ==
    [][ ( /\ lastOp'.op = "sendMessage"
          /\ sessionActive
          /\ state = "connected"
          /\ connection # NoRef
          /\ (webrtc = NoRef \/ ~engines[webrtc].dc) )
        => /\ "adapter" \in Range(sent')
           /\ lastOp'.result # "Data channel not ready for sending messages" ]_vars

\* C4: 'session:ended' is emitted only for a session that is still active, and
\* once: no step emits it twice or emits it when no session is active.
C4_EndedOncePerSession ==
    [][ Count(emitted', "session:ended") <= (IF sessionActive THEN 1 ELSE 0) ]_vars

\* C5: 'session:started' and 'session:ended' alternate, starting with
\* 'session:started', and a session becomes active only with state connected.
C5_OneSessionAlternating ==
    [][ /\ "session:started" \in Range(emitted') => lastSessionEvent # "started"
        /\ "session:ended" \in Range(emitted') => lastSessionEvent = "started"
        /\ (~sessionActive /\ sessionActive') => state' = "connected" ]_vars

\* C6: the session id is non-null exactly while a session is active, it is the
\* engine's server-provided id or else a newly generated one when the session
\* becomes active, and it does not change while the session stays active.
C6_SessionIdLifecycle ==
    [][ /\ sessionActive' <=> sessionId' # NoId
        /\ (sessionActive /\ sessionActive') => sessionId' = sessionId
        /\ (~sessionActive /\ sessionActive') =>
               IF webrtc' # NoRef /\ engines'[webrtc'].session = "sid"
               THEN sessionId' = ServerId(webrtc')
               ELSE sessionId'.src = "client" ]_vars

\* C7: endSession() with no active session returns normally, emits nothing and
\* changes no field of the controller (state, transport, engine, timers, history,
\* session id).
C7_EndSessionNoOp ==
    [][ (lastOp'.op = "endSession" /\ ~sessionActive) =>
          /\ lastOp'.result = "no-op"
          /\ emitted' = <<>>
          /\ UNCHANGED progVars ]_vars

\* endSession() returned as a no-op while a connect() was in flight
C7_Witness ==
    /\ lastOp = [op |-> "endSession", result |-> "no-op"]
    /\ state = "connecting"
    /\ tasks # EmptyBag

\* C8: with idle checking enabled, a step that is a qualifying activity of an
\* active session leaves the idle timer armed for the full idle period and no grace
\* timer pending, and 'session:idle-warning' is emitted only when a full idle
\* period has passed since the last qualifying activity (or the session start).
C8_ActivityRearmsIdle ==
    [][ /\ (activity' /\ config.enableIdleCheck) =>
              /\ idleTimeoutTimer' = IdleTimeoutMs
              /\ idleGracePeriodTimer' = NoTimer
        /\ "session:idle-warning" \in Range(emitted') =>
              sinceActivity >= IdleTimeoutMs ]_vars

\* a manual reset after an idle warning had been shown, in an active session
C8_Witness ==
    /\ activity
    /\ lastOp.op = "resetIdleTimer"
    /\ config.enableIdleCheck
    /\ idleTimeoutTimer = IdleTimeoutMs
    /\ \E i \in 1..Len(messages) : messages[i].automated

\* C9: the idle timer firing in an active session appends one automated assistant
\* check-in message, emits 'session:idle-warning' and arms a 60 s grace timer; the
\* grace timer firing in an active session emits 'session:idle-timeout' and ends
\* the session (or has its teardown under way); 'session:idle-timeout' is emitted
\* only by the due grace timer, with the warning still standing and no qualifying
\* activity during the idle period and the 60 s of grace.
C9_IdleWarningAndGrace ==
    [][ /\ (IdleFire /\ sessionActive) =>
              /\ nextId' = nextId + 1
              /\ messages'[Len(messages')] =
                     [Message("assistant", "idle-check", "text", TRUE) EXCEPT !.id = nextId]
              /\ emitted' = <<"session:idle-warning">>
              /\ idleGracePeriodTimer' = 60000
        /\ (GraceFire /\ sessionActive) =>
              /\ "session:idle-timeout" \in Range(emitted')
              /\ ~sessionActive' \/ \E t \in BagToSet(tasks') : t.kind = "cleanup"
        /\ "session:idle-timeout" \in Range(emitted') =>
              /\ idleGracePeriodTimer = 0
              /\ idleWarningShown
              /\ sinceActivity >= IdleTimeoutMs + 60000 ]_vars

\* the session was ended by the grace timer: its check-in message is the last entry
C9_Witness ==
    /\ "session:idle-timeout" \in Range(emitted)
    /\ "session:ended" \in Range(emitted)
    /\ ~sessionActive
    /\ Len(messages) > 0
    /\ messages[Len(messages)].automated

C11_NoStaleTimerEffect ==
    [][ ( \/ SessionWarningFire /\ "warning" \in stale
          \/ SessionTimeoutFire /\ "timeout" \in stale
          \/ IdleFire /\ "idle" \in stale
          \/ GraceFire /\ "grace" \in stale )
        => /\ emitted' = <<>>
           /\ UNCHANGED <<messages, nextId, sessionActive, tasks, state>> ]_vars

(***************************************************************************)
(* Reconnection under every policy.  The behaviours of Spec use one        *)
(* reconnect policy; SpecReconnect draws the base interval and the maximum *)
(* from small sets, with the session and idle timers off and text only.    *)
(* It starts either after construction or while the n-th attempt made by   *)
(* the reconnect timer awaits adapter.connect(), n not above the maximum   *)
(* handleReconnect compares with: the timer is armed only below it.        *)
(***************************************************************************)
\* the largest attempt counter a behaviour starts with
MaxAttempts == 3

ReconnectIntervals == {0, 1000, 5000, 20000, 40000}

ReconnectConfigs ==
    { [Features(FALSE, TRUE, ddp, Disabled, FALSE) EXCEPT
           !.reconnectInterval = base, !.maxReconnectAttempts = m] :
        ddp \in BOOLEAN, base \in ReconnectIntervals, m \in 0..MaxAttempts }

InitReconnect ==
    \E n \in 0..MaxAttempts :
        /\ config \in ReconnectConfigs
        /\ n <= MaxReconnectAttempts
        /\ state = IF n = 0 THEN "disconnected" ELSE "connecting"
        /\ connection = IF n = 0 THEN NoRef ELSE 1
        /\ webrtc = NoRef
        /\ adapters = [a \in Ids |-> IF n > 0 /\ a = 1 THEN "connecting" ELSE "unused"]
        /\ engines = [e \in Ids |-> NewEngine]
        /\ messages = <<>>
        /\ nextId = 1
        /\ reconnectAttempts = n
        /\ reconnectTimer = NoTimer
        /\ sessionActive = FALSE
        /\ sessionId = NoId
        /\ sessionTimeoutTimer = NoTimer
        /\ sessionWarningTimer = NoTimer
        /\ idleTimeoutTimer = NoTimer
        /\ idleGracePeriodTimer = NoTimer
        /\ idleWarningShown = FALSE
        /\ greetingListeners = 0
        /\ tasks = IF n = 0 THEN EmptyBag
                   ELSE SetToBag({Task("adapter", 1, Caller("timer", 0))})
        /\ starts = 0
        /\ lastOp = [op |-> "", result |-> ""]
        /\ activity = FALSE
        /\ emitted = <<>>
        /\ sent = <<>>
        /\ sinceStarted = 0
        /\ sinceActivity = 0
        /\ lastSessionEvent = "none"
        /\ warned = FALSE
        /\ stale = {}
        /\ stateChanges = <<>>
        /\ events = <<>>
        /\ lastEmit = NoEmit
        /\ manager = NewManager
        /\ ddpAdapter = NewDDP
        /\ audioPlayer = NoPlayer
        /\ connectionWait = NewWait

NextReconnect ==
    \/ StartSession
    \/ EndSessionCall
    \/ AdapterConnected
    \/ AdapterRejected
    \/ AdapterClosed
    \/ ReconnectFire

SpecReconnect == InitReconnect /\ [][NextReconnect]_vars

\* a step in which the transport asks for a reconnect: adapter.connect() rejected
\* (connect()'s catch) or the adapter emitted 'disconnect'
ReconnectRequested == config.reconnect /\ (AdapterRejected \/ AdapterClosed)

\* C12: the reconnect timer's callback never takes the attempt counter above the
\* configured maximum, and a reconnect request made once the counter has reached
\* the maximum leaves the state "error" with no reconnect timer pending.
C12_ReconnectCap ==
    [][ /\ ReconnectFire => reconnectAttempts' <= config.maxReconnectAttempts
        /\ (ReconnectRequested /\ reconnectAttempts >= config.maxReconnectAttempts)
               => (state' = "error" /\ reconnectTimer' = NoTimer) ]_vars

\* C13: whenever a reconnect request arms the reconnect timer, the delay it is
\* armed with is min(base * 2^n, 30000) ms, base the configured interval and n the
\* attempt counter.
C13_BackoffDelay ==
    [][ (ReconnectRequested /\ reconnectTimer' # NoTimer)
            => reconnectTimer' =
                   Min(config.reconnectInterval * Pow2(reconnectAttempts), 30000) ]_vars

\* connect() calls still awaiting adapter.connect() or the voice engine; the
\* promise of a DDP adapter whose socket has closed never settles and is left out
ConnectsInProgress(tk, ad) ==
    SumCopies({t \in BagToSet(tk) : /\ t.kind \in {"adapter", "voice"}
                                    /\ ~(config.ddp /\ ad[t.id] = "closed")}, tk)

\* this step constructs adapter a (new DDPAdapter / new RESTAdapter in connect())
Created(a) == adapters[a] = "unused" /\ adapters'[a] # "unused"

\* C14: no adapter is constructed while the state is connecting or connected, at
\* most one connect() is in progress at a time, and no adapter is constructed
\* while an earlier one is still connecting or connected.
C14_SingleConnect ==
    [][ /\ (state \in {"connecting", "connected"}) => (\A a \in Ids : ~Created(a))
        /\ ConnectsInProgress(tasks', adapters') <= 1
        /\ \A a \in Ids : Created(a) =>
               (\A b \in Ids \ {a} : adapters[b] \notin {"connecting", "connected"})
      ]_vars

\* the states the controller goes through in a step: the one before it and those
\* passed to setState, in order
StatePath == <<state>> \o stateChanges'

\* the changes between distinct states made in a step
Transitions ==
    { <<StatePath[i], StatePath[i + 1]>> : i \in 1..(Len(StatePath) - 1) }
        \ { <<x, x>> : x \in ConnectionState }

\* C15 as claimed: the state is only changed by setState, and every change between
\* distinct states is one of disconnected -> connecting -> connected,
\* connected -> reconnecting -> connecting, or any -> error.
C15_ClaimedMachine ==
    [][ /\ state' = StatePath[Len(StatePath)]
        /\ Transitions \subseteq
               ( { <<"disconnected", "connecting">>, <<"connecting", "connected">>,
                   <<"connected", "reconnecting">>, <<"reconnecting", "connecting">> }
                 \cup { <<x, "error">> : x \in ConnectionState } ) ]_vars

\* C15: the state is only changed by setState, and between distinct states
\* 'connecting' is entered only from disconnected, reconnecting or error
\* (connect()), 'reconnecting' only from disconnected or error (handleReconnect),
\* while 'connected' (a connect() resuming), 'disconnected' (disconnect() or a
\* transport 'disconnect') and 'error' are entered from any state.
C15_StateMachine ==
    [][ /\ state' = StatePath[Len(StatePath)]
        /\ Transitions \subseteq
               ( { <<x, "connecting">> : x \in {"disconnected", "reconnecting", "error"} }
                 \cup { <<x, "reconnecting">> : x \in {"disconnected", "error"} }
                 \cup { <<x, y>> : x \in ConnectionState,
                                   y \in {"connected", "disconnected", "error"} } ) ]_vars

\* a connected controller has just lost its transport and gone, through
\* 'disconnected', to 'reconnecting'
C15_Witness ==
    /\ stateChanges = <<"disconnected", "reconnecting">>
    /\ state = "reconnecting"
    /\ reconnectTimer # NoTimer
    /\ \E a \in Ids : adapters[a] = "closed"

\* C16: on every data channel a session.update is sent only once session.created
\* has been received, and the step in which the channel opens sends none.
C16_UpdateAfterCreated ==
    [][ \A e \in Ids :
            /\ engines'[e].updates > 0 => engines'[e].created
            /\ engines'[e].updates > engines[e].updates => ~DataChannelOpen ]_vars

\* a channel that opened, received session.created and then sent its session.update
C16_Witness ==
    \E e \in Ids : engines[e].dc /\ engines[e].created /\ engines[e].updates = 1

\* C17: once session.created has been received exactly one session.update has been
\* sent on the channel, and the first event sent on a channel is its
\* session.update.
C17_UpdateFirst ==
    \A e \in Ids :
        /\ engines[e].created => engines[e].updates = 1
        /\ engines[e].updates <= 1
        /\ engines[e].first \in {"", "session.update"}

\* the greetings appended to the history by the step just taken
GreetingsAppended ==
    Cardinality({ i \in 1..Len(messages') :
                    messages'[i].id >= nextId /\ messages'[i].content = "hi" })

\* C18: one readiness event (a step of an active session) sends and appends at
\* most one greeting 'hi', however many readiness events or sessions came before.
C18_GreetingOnce ==
    [][ /\ GreetingsAppended <= 1
        /\ Count(sent', "webrtc") > 1 => ~DataChannelOpen ]_vars

\* the messages appended to the history by the step just taken
Added == { messages'[i] : i \in { j \in 1..Len(messages') : messages'[j].id >= nextId } }

\* the idle timer was restarted and the grace timer cancelled
IdleReset == idleTimeoutTimer' = IdleTimeoutMs /\ idleGracePeriodTimer' = NoTimer

\* C19 as claimed: in an active session with the idle check enabled, a step that
\* adds a message that is not automated, of either role, resets the idle timer,
\* and a step that adds only automated messages does not.
C19_AnyRoleResets ==
    [][ (sessionActive /\ config.enableIdleCheck /\ Added # {}) =>
            /\ (\E m \in Added : ~m.automated) => IdleReset
            /\ (\A m \in Added : m.automated) => idleTimeoutTimer' = NoTimer ]_vars

\* C19: in an active session with the idle check enabled, the idle timer is reset
\* by a step that adds a user message through sendMessage or ingests an assistant
\* message that is not automated; a user message ingested from the voice engine
\* leaves the idle and grace timers as they were, and a step that adds only
\* automated messages does not re-arm the idle timer.
C19_IdleResetByMessage ==
    [][ (sessionActive /\ config.enableIdleCheck /\ Added # {}) =>
            /\ (\E m \in Added : ~m.automated /\ (m.type = "assistant" \/ m.source = "text"))
                   => IdleReset
            /\ (\A m \in Added : m.type = "user" /\ m.source = "voice")
                   => UNCHANGED <<idleTimeoutTimer, idleGracePeriodTimer>>
            /\ (\A m \in Added : m.automated) => idleTimeoutTimer' = NoTimer ]_vars

\* an assistant message was ingested in an active session some time after its
\* start and the idle timer runs afresh
C19_Witness ==
    /\ sessionActive /\ config.enableIdleCheck
    /\ activity /\ lastOp.op = ""
    /\ messages # <<>>
    /\ messages[Len(messages)].type = "assistant"
    /\ ~messages[Len(messages)].automated
    /\ sinceStarted > 0
    /\ idleTimeoutTimer = IdleTimeoutMs

\* the errors a delivery attempt of sendMessage ends with
DeliveryErrors ==
    { "Data channel not ready for sending messages",
      "Text messages are only supported through WebRTC",
      "No communication channel available" }

\* C20: a sendMessage() call made with a session active and the state connected
\* appends exactly one user message with source 'text' and resets the idle timer
\* (when the idle check is enabled) whether or not the delivery succeeds; the call
\* resolves exactly when the text went out on the open data channel and otherwise
\* rejects with the delivery error, the appended message staying in the history.
C20_AppendBeforeDelivery ==
    [][ (SendMessageCall /\ sessionActive /\ state = "connected") =>
            /\ nextId' = nextId + 1
            /\ Added = { [Message("user", "text", "text", FALSE) EXCEPT !.id = nextId] }
            /\ messages'[Len(messages')].id = nextId
            /\ config.enableIdleCheck => IdleReset
            /\ lastOp'.result \in DeliveryErrors \cup {"ok"}
            /\ lastOp'.result = "ok" <=> sent' = <<"webrtc">>
            /\ lastOp'.result \in DeliveryErrors => sent' \in {<<>>, <<"adapter">>} ]_vars

\* a sendMessage() call whose delivery failed: the error was returned, the message
\* is the last of the history and the idle timer runs afresh
C20_Witness ==
    /\ lastOp.op = "sendMessage"
    /\ lastOp.result \in DeliveryErrors
    /\ messages # <<>>
    /\ messages[Len(messages)].type = "user"
    /\ messages[Len(messages)].source = "text"
    /\ sinceStarted > 0
    /\ idleTimeoutTimer = IdleTimeoutMs

(***************************************************************************)
(* Construction.  SpecConfig starts before the constructor has validated   *)
(* the configuration, with the session and idle timeouts the host page     *)
(* passed (defaults merged in) drawn from small sets, text only; the       *)
(* session is then started and ended without letting time pass.            *)
(***************************************************************************)
SessionTimeouts == {Disabled, Undefined, 0, 1, 60000, 100000, 900000}

IdleTimeouts == {Undefined, 0, 1, 60000, 300000, 850000, 900000, 950000}

RawConfigs ==
    { [Features(FALSE, FALSE, FALSE, st, idle) EXCEPT !.idleTimeout = it]
          @@ [validated |-> FALSE] :
        st \in SessionTimeouts, it \in IdleTimeouts, idle \in BOOLEAN }

InitConfig == InitWith(RawConfigs, <<>>)

\* the constructor: this.config = this.validateConfig(config)
Construct ==
    /\ ~config.validated
    /\ config' = [ValidateConfig(config) EXCEPT !.validated = TRUE]
    /\ UNCHANGED <<state, connection, webrtc, adapters, engines, messages, nextId,
                   reconnectAttempts, reconnectTimer, sessionActive, sessionId,
                   sessionTimeoutTimer, sessionWarningTimer, idleTimeoutTimer,
                   idleGracePeriodTimer, idleWarningShown, greetingListeners, tasks,
                   starts, lastOp, activity, emitted, sent, sinceStarted,
                   sinceActivity, lastSessionEvent, warned, stale, stateChanges,
                   events, lastEmit, manager, ddpAdapter, audioPlayer, connectionWait>>

NextConfig ==
    \/ Construct
    \/ config.validated /\ StartSession
    \/ config.validated /\ AdapterConnected
    \/ config.validated /\ AdapterRejected
    \/ config.validated /\ EndSessionCall

SpecConfig == InitConfig /\ [][NextConfig]_vars

\* the adjustment applies to the configuration being validated
Clamped(c) ==
    /\ c.sessionTimeout \notin {Disabled, Undefined}
    /\ c.idleTimeout # Undefined
    /\ c.idleTimeout >= c.sessionTimeout

\* C21 as claimed: validation sets the idle timeout to 0.8 x the session timeout,
\* rounded down, when the session timeout is not disabled and the idle timeout is
\* not below it, and leaves it unchanged otherwise; and {sessionTimeout: 900000,
\* idleTimeout: 850000} yields idle timeout 720000.
C21_ClampWithExample ==
    [][ Construct =>
          /\ config'.idleTimeout = IF Clamped(config) THEN (4 * config.sessionTimeout) \div 5
                                   ELSE config.idleTimeout
          /\ (config.sessionTimeout = 900000 /\ config.idleTimeout = 850000)
                 => config'.idleTimeout = 720000 ]_vars

\* C21: validation sets the idle timeout to 0.8 x the session timeout, rounded
\* down, when the session timeout is not disabled and the idle timeout is not
\* below it, and leaves it unchanged otherwise; {sessionTimeout: 900000,
\* idleTimeout: 850000} is left as it is and {sessionTimeout: 900000,
\* idleTimeout: 950000} yields idle timeout 720000.  No other option changes.
C21_ClampIdleTimeout ==
    [][ Construct =>
          /\ config'.idleTimeout = IF Clamped(config) THEN (4 * config.sessionTimeout) \div 5
                                   ELSE config.idleTimeout
          /\ (config.sessionTimeout = 900000 /\ config.idleTimeout = 850000)
                 => config'.idleTimeout = 850000
          /\ (config.sessionTimeout = 900000 /\ config.idleTimeout = 950000)
                 => config'.idleTimeout = 720000
          /\ config'.sessionTimeout = config.sessionTimeout
          /\ config'.enableIdleCheck = config.enableIdleCheck ]_vars

\* a validated configuration whose idle timeout was adjusted to 80% of 900000
C21_Witness ==
    /\ config.validated
    /\ config.sessionTimeout = 900000
    /\ config.idleTimeout = 720000

\* C22: for every configuration whose session timeout is not disabled, the idle
\* timeout is below the session timeout once validated, and the idle period armed
\* at session start is below the session period armed with it.
C22_IdleBelowSession ==
    /\ ( /\ config.validated
         /\ config.sessionTimeout \notin {Disabled, Undefined}
         /\ config.idleTimeout # Undefined )
            => config.idleTimeout < config.sessionTimeout
    /\ ( /\ config.validated
         /\ sessionActive
         /\ sessionTimeoutTimer # NoTimer
         /\ idleTimeoutTimer # NoTimer )
            => idleTimeoutTimer < sessionTimeoutTimer

(***************************************************************************)
(* The history on its own: addMessage called again and again on a          *)
(* controller that starts with no messages.                                *)
(***************************************************************************)
MaxCalls == 105

InitAppend == InitWith(Configs, <<>>)

AddMessageCall ==
    /\ nextId <= MaxCalls
    /\ LET s == AddMessage(Cur, Message("user", "text", "text", FALSE))
       IN  /\ messages' = s.messages
           /\ nextId' = s.nextId
    /\ UNCHANGED <<config, state, connection, webrtc, adapters, engines,
                   reconnectAttempts, reconnectTimer, sessionActive, sessionId,
                   sessionTimeoutTimer, sessionWarningTimer, idleTimeoutTimer,
                   idleGracePeriodTimer, idleWarningShown, greetingListeners, tasks,
                   starts, lastOp, activity, emitted, sent, sinceStarted,
                   sinceActivity, lastSessionEvent, warned, stale, stateChanges,
                   events, lastEmit, manager, ddpAdapter, audioPlayer, connectionWait>>

SpecAppend == InitAppend /\ [][AddMessageCall]_vars

\* the n-th message added is in the history
Present(n) == \E i \in 1..Len(messages) : messages[i].id = n

\* C23 as claimed: from an empty history, after 105 addMessage calls the history
\* holds 100 messages, the 6th message added is absent and the 105th is present.
C23_SixthEvicted ==
    nextId - 1 = 105 =>
        /\ Len(messages) = 100
        /\ ~Present(6)
        /\ Present(105)

\* C23: from an empty history, after 105 addMessage calls the history holds 100
\* messages: the first five messages added are absent, the 6th is the oldest
\* one kept and the 105th is the newest.
C23_FirstFiveEvicted ==
    nextId - 1 = 105 =>
        /\ Len(messages) = 100
        /\ \A n \in 1..5 : ~Present(n)
        /\ messages[1].id = 6
        /\ messages[100].id = 105
        /\ \A i \in 1..100 : messages[i].id = i + 5

\* 105 messages were added and the history is at its limit
C23_Witness ==
    /\ nextId - 1 = 105
    /\ Len(messages) = MAX_MESSAGES

(***************************************************************************)
(* EventEmitter.  A registered handler is an entry [event, fn, once, calls]:*)
(* fn is the function the caller passed, once tells that the entry is the   *)
(* wrapper once() built around it, calls counts its invocations.  A Set     *)
(* keeps insertion order and holds a function once; every once() builds a   *)
(* new wrapper.  Whether a function throws is chosen at each emit.          *)
(***************************************************************************)
MaxHandlers == 3

MaxFns == 2

MaxEmits == 2

EventNames == {"message", "error"}

Fns == 1..MaxFns

\* on(event, handler)
EmitterOn(h, ev, fn) ==
    IF \E i \in 1..Len(h) : h[i].event = ev /\ h[i].fn = fn /\ ~h[i].once
    THEN h
    ELSE Append(h, [event |-> ev, fn |-> fn, once |-> FALSE, calls |-> 0])

\* off(event, handler)
EmitterOff(h, ev, fn) ==
    SelectSeq(h, LAMBDA e : ~(e.event = ev /\ e.fn = fn /\ ~e.once))

\* once(event, handler): on(event, onceHandler)
EmitterOnce(h, ev, fn) ==
    Append(h, [event |-> ev, fn |-> fn, once |-> TRUE, calls |-> 0])

\* the handlers after emit(ev) has visited those up to position last: a visited
\* handler is invoked; the wrapper of once() calls the handler and then off(),
\* which it does not reach when the handler throws
Visit(h, ev, throwing, last) ==
    LET seen(i) == i <= last /\ h[i].event = ev
        called == [i \in 1..Len(h) |->
                     [h[i] EXCEPT !.calls = IF seen(i) THEN @ + 1 ELSE @,
                                  !.event = IF seen(i) /\ h[i].once /\ h[i].fn \notin throwing
                                            THEN "" ELSE @]]
    IN  SelectSeq(called, LAMBDA e : e.event # "")

Invoked(h, ev, last) ==
    LET upto == SubSeq(h, 1, IF last > Len(h) THEN Len(h) ELSE last)
        mine == SelectSeq(upto, LAMBDA e : e.event = ev)
    IN  [i \in 1..Len(mine) |-> mine[i].fn]

\* variant of emit without the try/catch around each handler: the first
\* exception ends the loop and reaches the caller
EmitterEmit_NoCatch(h, ev, throwing) ==
    LET at == {i \in 1..Len(h) : h[i].event = ev /\ h[i].fn \in throwing}
        last == IF at = {} THEN Len(h) + 1 ELSE CHOOSE i \in at : \A j \in at : i <= j
    IN  [events |-> Visit(h, ev, throwing, last),
         last |-> [event |-> ev, throwing |-> throwing,
                   invoked |-> Invoked(h, ev, last), threw |-> last <= Len(h)]]

\* emit(event): handlers.forEach with a try/catch around each handler
EmitterEmit(h, ev, throwing) ==
    [events |-> Visit(h, ev, throwing, Len(h)),
     last |-> [event |-> ev, throwing |-> throwing,
               invoked |-> Invoked(h, ev, Len(h)), threw |-> FALSE]]

EmitterStep(h, last) ==
    /\ events' = h
    /\ lastEmit' = last
    /\ UNCHANGED <<config, state, connection, webrtc, adapters, engines, messages,
                   nextId, reconnectAttempts, reconnectTimer, sessionActive, sessionId,
                   sessionTimeoutTimer, sessionWarningTimer, idleTimeoutTimer,
                   idleGracePeriodTimer, idleWarningShown, greetingListeners, tasks,
                   starts, lastOp, activity, emitted, sent, sinceStarted,
                   sinceActivity, lastSessionEvent, warned, stale, stateChanges,
                   manager, ddpAdapter, audioPlayer, connectionWait>>

On ==
    \E ev \in EventNames, fn \in Fns :
        /\ Len(events) < MaxHandlers
        /\ EmitterStep(EmitterOn(events, ev, fn), NoEmit)

Off ==
    \E ev \in EventNames, fn \in Fns :
        EmitterStep(EmitterOff(events, ev, fn), NoEmit)

Once ==
    \E ev \in EventNames, fn \in Fns :
        /\ Len(events) < MaxHandlers
        /\ EmitterStep(EmitterOnce(events, ev, fn), NoEmit)

EmitEvent(ev, throwing) ==
    /\ \A i \in 1..Len(events) : events[i].calls < MaxEmits
    /\ LET r == EmitterEmit(events, ev, throwing)
       IN  EmitterStep(r.events, r.last)

EmitCall == \E ev \in EventNames, throwing \in SUBSET Fns : EmitEvent(ev, throwing)

NextEmitter == On \/ Off \/ Once \/ EmitCall

\* the emitter does not read the configuration: one is enough
InitEmitter == InitWith({CHOOSE c \in Configs : TRUE}, <<>>)

SpecEmitter == InitEmitter /\ [][NextEmitter]_vars

\* the handlers of ev, without their invocation counts
Subscribers(h, ev) ==
    LET mine == SelectSeq(h, LAMBDA e : e.event = ev)
    IN  [i \in 1..Len(mine) |-> [fn |-> mine[i].fn, once |-> mine[i].once]]

\* C24: emit(event) invokes every subscriber of the event, in order, also those
\* registered after one that throws; the exception of a subscriber never reaches
\* the caller of emit and removes no subscriber: after the emit the subscribers
\* are those before it less the once() subscribers that returned normally, and
\* the subscribers of other events are untouched.
C24_EmitIsolatesThrows ==
    [][ \A ev \in EventNames, throwing \in SUBSET Fns :
          EmitEvent(ev, throwing) =>
            /\ lastEmit'.invoked = [i \in 1..Len(Subscribers(events, ev)) |->
                                        Subscribers(events, ev)[i].fn]
            /\ ~lastEmit'.threw
            /\ Subscribers(events', ev) =
                   SelectSeq(Subscribers(events, ev),
                             LAMBDA e : ~(e.once /\ e.fn \notin throwing))
            /\ \A other \in EventNames \ {ev} :
                   SelectSeq(events', LAMBDA e : e.event = other)
                       = SelectSeq(events, LAMBDA e : e.event = other) ]_vars

\* an emit invoked a subscriber after another subscriber of the event threw
C24_Witness ==
    /\ Len(lastEmit.invoked) >= 2
    /\ lastEmit.invoked[1] \in lastEmit.throwing
    /\ ~lastEmit.threw

\* C25: a once() subscriber is invoked at most once over any sequence of emits and
\* is removed after its first invocation, even when that invocation throws: no
\* once() subscriber that was invoked is still registered.
C25_OnceAtMostOnce ==
    \A i \in 1..Len(events) : events[i].once => events[i].calls = 0

\* C26: a voice failure is not fatal.  When the voice engine fails to initialise,
\* connect() still sets the state to connected; when the microphone cannot be
\* started for a session that is still active, startSession() goes on: the session
\* stays active, the session timer (unless disabled) and the idle timer (unless
\* the idle check is off) are armed with their full periods and 'session:started'
\* is emitted.
C26_VoiceFailureNotFatal ==
    [][ /\ EngineFailed => state' = "connected"
        /\ (MicFailed /\ sessionActive) =>
              /\ sessionActive'
              /\ "session:started" \in Range(emitted')
              /\ config.sessionTimeout # Disabled => sessionTimeoutTimer' = SessionTimeoutMs
              /\ config.enableIdleCheck => idleTimeoutTimer' = IdleTimeoutMs ]_vars

\* a session was started on a connected controller whose voice engine failed to
\* initialise and whose microphone attempt is over
C26_Witness ==
    /\ state = "connected"
    /\ webrtc # NoRef
    /\ engines[webrtc].status = "closed"
    /\ sessionActive
    /\ "session:started" \in Range(emitted)
    /\ sessionTimeoutTimer = SessionTimeoutMs
    /\ idleTimeoutTimer = IdleTimeoutMs

(***************************************************************************)
(* One WebRTCManager on its own: the server's events on its data channel   *)
(* (tool calls, errors) and its cleanup(), which may be called again while *)
(* an earlier call is in its 200 ms wait.  The browser delivers no message *)
(* on a channel that is not open.                                          *)
(***************************************************************************)
MaxCleanups == 2

\* sendEvent of a function_call_output for call c: sent if the channel is open,
\* else only a log line
SendOutput(m, c, payload) ==
    IF m.dc = "open" THEN [m EXCEPT !.outputs[c] = Append(@, payload)] ELSE m

\* handleToolCall up to its await: an event without call_id, name or arguments
\* is dropped
HandleToolCall(m, c, complete) ==
    [Begin(m) EXCEPT !.calls[c] = IF complete THEN "pending" ELSE "dropped"]

\* variant: a failed tool call is reported as an engine error, with no output
ToolCallSettled_Raise(m, c, ok) ==
    IF ok THEN SendOutput([Begin(m) EXCEPT !.calls[c] = "done"], c, "result")
    ELSE [Begin(m) EXCEPT !.calls[c] = "failed", !.errors = 1, !.last = "surfaced"]

\* handleToolCall after processRealtimeToolCall settled: the result, or the error
\* payload from the catch
ToolCallSettled(m, c, ok) ==
    SendOutput([Begin(m) EXCEPT !.calls[c] = IF ok THEN "done" ELSE "failed"],
               c, IF ok THEN "result" ELSE "error")

\* handleRealtimeEvent, case 'error'
HandleErrorEvent(m) ==
    IF ~m.isCleaningUp THEN [Begin(m) EXCEPT !.errors = 1, !.last = "surfaced"]
    ELSE [Begin(m) EXCEPT !.last = "suppressed"]

\* this.mediaStream.getTracks().forEach(track => track.stop()); mediaStream = null
StopTracks(m) ==
    IF m.mediaStream = NoRef THEN m
    ELSE [m EXCEPT !.live = @ \ {m.mediaStream}, !.mediaStream = NoRef]

\* stopRecording: the tracks of this.mediaStream are stopped, the sender's track
\* is replaced by null (which does not stop it), the flag is cleared
StopRecording(m) ==
    LET a == StopTracks(m)
        b == IF a.pc THEN [a EXCEPT !.senderTrack = NoRef] ELSE a
    IN  Do([b EXCEPT !.isRecording = FALSE], "stopRecording")

\* variant of the rest of cleanup(): the peer connection is closed before
\* recording is stopped
CleanupRest_CloseFirst(m) ==
    LET b == IF m.pc
             THEN Do([m EXCEPT !.live = @ \ {m.senderTrack}, !.pc = FALSE], "pc.close")
             ELSE m
        a == StopRecording(b)
        c == [a EXCEPT !.dc = "closed", !.session = FALSE]
    IN  Do([c EXCEPT !.isCleaningUp = FALSE, !.stopped = TRUE], "flag:off")

\* cleanup() from its wait on: recording is stopped; the track still on the
\* sender (replaceTrack(null) has not taken effect yet) is stopped and the peer
\* connection closed, which closes the channel; the references and the
\* credential are dropped; the flag is reset
CleanupRest(m) ==
    LET a == StopRecording(m)
        b == IF m.pc
             THEN Do([a EXCEPT !.live = @ \ {m.senderTrack}, !.pc = FALSE], "pc.close")
             ELSE a
        c == [b EXCEPT !.dc = "closed", !.session = FALSE]
    IN  Do([c EXCEPT !.isCleaningUp = FALSE, !.stopped = TRUE], "flag:off")

\* variant: cleanup() does not raise its flag
CleanupBegin_NoFlag(m) ==
    IF m.dc = "open" THEN Do([Begin(m) EXCEPT !.cleanups = @ + 1], "stopEvents")
    ELSE CleanupRest(Begin(m))

\* cleanup() up to its wait, or to its end when the channel is not open
CleanupBegin(m) ==
    LET f == Do([Begin(m) EXCEPT !.isCleaningUp = TRUE], "flag:on")
    IN  IF m.dc = "open" THEN Do([f EXCEPT !.cleanups = @ + 1], "stopEvents")
        ELSE CleanupRest(f)

ManagerStep(m) ==
    /\ manager' = m
    /\ UNCHANGED <<config, state, connection, webrtc, adapters, engines, messages,
                   nextId, reconnectAttempts, reconnectTimer, sessionActive, sessionId,
                   sessionTimeoutTimer, sessionWarningTimer, idleTimeoutTimer,
                   idleGracePeriodTimer, idleWarningShown, greetingListeners, tasks,
                   starts, lastOp, activity, emitted, sent, sinceStarted,
                   sinceActivity, lastSessionEvent, warned, stale, stateChanges,
                   events, lastEmit, ddpAdapter, audioPlayer, connectionWait>>

\* dataChannel.onopen
ChannelOpen ==
    /\ manager.dc = "connecting"
    /\ ManagerStep([Begin(manager) EXCEPT !.dc = "open"])

\* 'response.function_call_arguments.done' arrives for call c
ToolCallEvent(c, complete) ==
    /\ manager.dc = "open"
    /\ manager.calls[c] = "none"
    /\ ManagerStep(HandleToolCall(manager, c, complete))

ToolCallArrives == \E c \in CallIds, complete \in BOOLEAN : ToolCallEvent(c, complete)

\* processRealtimeToolCall of call c resolved (ok) or rejected
ToolCallSettles(c, ok) ==
    /\ manager.calls[c] = "pending"
    /\ ManagerStep(ToolCallSettled(manager, c, ok))

ToolCallEnds == \E c \in CallIds, ok \in BOOLEAN : ToolCallSettles(c, ok)

\* an 'error' event arrives on the channel
ErrorEvent ==
    /\ manager.dc = "open"
    /\ ManagerStep(HandleErrorEvent(manager))

CleanupCall ==
    /\ manager.cleanups < MaxCleanups
    /\ ManagerStep(CleanupBegin(manager))

\* the 200 ms wait of one cleanup() call is over
CleanupResume ==
    /\ manager.cleanups > 0
    /\ ManagerStep(CleanupRest([Begin(manager) EXCEPT !.cleanups = @ - 1]))

NextManager ==
    \/ ChannelOpen
    \/ ToolCallArrives
    \/ ToolCallEnds
    \/ ErrorEvent
    \/ CleanupCall
    \/ CleanupResume

\* the manager on its own does not read the controller's configuration
InitManager == InitEmitter

SpecManager == InitManager /\ [][NextManager]_vars

\* C27 as claimed: every response.function_call_arguments.done event is answered
\* by exactly one function_call_output for its call, once the tool call is over.
C27_EveryCallAnswered ==
    \A c \in CallIds :
        manager.calls[c] \in {"done", "failed", "dropped"} => Len(manager.outputs[c]) = 1

\* C27: a response.function_call_arguments.done event that carries call_id, name
\* and arguments is answered, when its tool call settles, by exactly one
\* function_call_output for its call if the data channel is open at that moment
\* (the result on success, an error payload on failure) and by none if it is not;
\* an event lacking one of the three fields is dropped unanswered; no call ever
\* has two outputs, and a tool failure is never emitted as an engine error.
C27_OneOutputPerCall ==
    [][ /\ \A c \in CallIds, ok \in BOOLEAN :
              ToolCallSettles(c, ok) =>
                  /\ manager'.outputs[c] =
                         IF manager.dc = "open"
                         THEN <<IF ok THEN "result" ELSE "error">>
                         ELSE <<>>
                  /\ manager'.errors = manager.errors
                  /\ manager'.last # "surfaced"
        /\ \A c \in CallIds, complete \in BOOLEAN :
              ToolCallEvent(c, complete) => manager'.outputs[c] = <<>>
        /\ \A c \in CallIds :
              manager.calls[c] # "pending" => manager'.outputs[c] = manager.outputs[c]
      ]_vars

\* a tool call failed and was answered by one error payload
C27_Witness ==
    \E c \in CallIds :
        /\ manager.calls[c] = "failed"
        /\ manager.outputs[c] = <<"error">>
        /\ manager.errors = 0

\* C28: an inbound realtime 'error' event is surfaced as an engine error exactly
\* when no cleanup() of the engine is in progress: every error handled while one
\* or more cleanup() calls are in their wait is suppressed.
C28_ErrorsSuppressedInCleanup ==
    [][ ErrorEvent =>
          /\ manager'.last = IF manager.cleanups = 0 THEN "surfaced" ELSE "suppressed"
          /\ manager.cleanups > 0 => manager'.errors = manager.errors ]_vars

\* an error event was suppressed while two cleanup() calls overlapped
C28_Witness ==
    /\ manager.cleanups = 2
    /\ manager.last = "suppressed"
    /\ manager.errors = 0

(***************************************************************************)
(* Backend logging.  addMessage ends with syncMessageToBackend, which      *)
(* starts logConversationMessage without awaiting it; its rejection comes  *)
(* back later, to the .catch of syncMessageToBackend.  The calls in flight *)
(* are not counted: a rejection may arrive at any time after a message was *)
(* added.  The page may also call clearMessages().                         *)
(***************************************************************************)
\* variant: the rejection is treated as a connection error that ends the session
SyncRejected_Fatal(s) ==
    [SetState(s, "error") EXCEPT !.sessionActive = FALSE, !.result = "thrown"]

\* the .catch of syncMessageToBackend: a console warning
SyncRejected(s) == [s EXCEPT !.result = "swallowed"]

LogRejected ==
    /\ nextId > 1
    /\ Commit(SyncRejected(Cur), "logConversationMessage")

ClearMessagesCall == Commit(ClearMessages(Cur), "clearMessages")

NextLogging ==
    \/ Next
    \/ LogRejected
    \/ ClearMessagesCall

SpecLogging == Init /\ [][NextLogging]_vars

\* C29: a rejection of the backend logging call reaches no caller and changes
\* neither the history, nor the session (active flag, id, the four timers), nor
\* the connection (state, adapter, voice engine, reconnect attempts and timer).
C29_LoggingFailureSwallowed ==
    [][ LogRejected =>
          /\ lastOp'.result = "swallowed"
          /\ UNCHANGED <<messages, nextId>>
          /\ UNCHANGED <<sessionActive, sessionId, sessionTimeoutTimer,
                         sessionWarningTimer, idleTimeoutTimer, idleGracePeriodTimer,
                         idleWarningShown>>
          /\ UNCHANGED <<state, connection, webrtc, adapters, engines,
                         reconnectAttempts, reconnectTimer, tasks>>
          /\ emitted' = <<>> /\ stateChanges' = <<>> ]_vars

\* a logging rejection was swallowed during an active session that has messages
C29_Witness ==
    /\ lastOp.op = "logConversationMessage"
    /\ sessionActive
    /\ state = "connected"
    /\ Len(messages) > 0
    /\ idleTimeoutTimer # NoTimer

\* new is old after k appends, the oldest entries evicted at the limit
Appended(old, new, k) ==
    LET kept == Len(new) - k
    IN  /\ kept >= 0
        /\ kept <= Len(old)
        /\ kept = Len(old) \/ Len(new) = MAX_MESSAGES
        /\ SubSeq(new, 1, kept) = SubSeq(old, Len(old) - kept + 1, Len(old))
        /\ \A i \in kept + 1..Len(new) : new[i].id >= nextId

\* the steps that handle an error: a failed connect, a failed voice engine, a
\* lost transport, a reconnect attempt, a failed send, a logging failure
ErrorStep ==
    \/ AdapterRejected
    \/ EngineFailed
    \/ AdapterClosed
    \/ ReconnectFire
    \/ MicFailed
    \/ LogRejected
    \/ SendMessageCall /\ lastOp'.result # "ok"

\* C30: no error path removes entries from the history.  A step that handles an
\* error either leaves the history as it is or appends to it (a failed send keeps
\* the user message it added; startSession's greeting may be sent in the step of a
\* continuation); every other step leaves it, appends to it, or is an explicit
\* clearMessages() or startSession(clearHistory = true), after which only newly
\* appended messages are in it.
C30_ErrorsKeepHistory ==
    [][ messages' # messages =>
          /\ ErrorStep => \E k \in 1..Len(messages') : Appended(messages, messages', k)
          /\ \/ \E k \in 1..Len(messages') : Appended(messages, messages', k)
             \/ /\ StartSession \/ ClearMessagesCall
                /\ \E k \in 0..Len(messages') : Appended(<<>>, messages', k) ]_vars

\* a send failed, or a connect failed, with messages in the history, which are
\* still there
C30_Witness ==
    /\ Len(messages) > 0
    /\ \/ lastOp.op = "sendMessage" /\ lastOp.result \notin {"ok", ""}
       \/ state = "error"

\* the last session was ended, nothing is in flight and the controller is at rest
AtRest ==
    /\ lastSessionEvent = "ended"
    /\ ~sessionActive
    /\ tasks = EmptyBag
    /\ state = "disconnected"
    /\ reconnectTimer = NoTimer

\* C31: once endSession() has completed the controller stays disconnected until
\* the user starts a session again: the step that completes endSession() leaves
\* the state disconnected with no reconnect timer pending, and from then on no
\* step other than startSession() changes the state, arms the reconnect timer or
\* starts a connect attempt.
C31_StaysDisconnected ==
    [][ /\ "session:ended" \in Range(emitted') =>
              state' = "disconnected" /\ reconnectTimer' = NoTimer
        /\ (AtRest /\ ~StartSession) =>
              /\ state' = "disconnected"
              /\ reconnectTimer' = NoTimer
              /\ tasks' = EmptyBag ]_vars

\* C32: whenever the state is connected the controller holds a transport adapter
\* whose connect() resolved and which was not disconnected since; in particular a
\* teardown made while a connect() is in flight leaves the controller, once both
\* are over, disconnected with no transport and no voice engine.
C32_ConnectedHasTransport ==
    /\ state = "connected" =>
          /\ connection # NoRef
          /\ adapters[connection] = "connected"
    /\ (tasks = EmptyBag /\ connection = NoRef /\ reconnectTimer = NoTimer) =>
          /\ state \in {"disconnected", "error"}
          /\ webrtc = NoRef

\* C33: a transport 'disconnect' event received during an active session sets the
\* state to disconnected and enters handleReconnect, and changes only the state
\* and the reconnect scheduling: the session stays active and its id, the history,
\* the session warning and hard timers and the idle and grace timers are unchanged.
C33_DisconnectKeepsSession ==
    [][ (AdapterClosed /\ sessionActive) =>
          /\ stateChanges'[1] = "disconnected"
          /\ state' = IF ~config.reconnect THEN "disconnected"
                      ELSE IF reconnectAttempts >= MaxReconnectAttempts THEN "error"
                      ELSE "reconnecting"
          /\ reconnectTimer' =
                 IF config.reconnect /\ reconnectAttempts < MaxReconnectAttempts
                 THEN ReconnectDelay(reconnectAttempts)
                 ELSE reconnectTimer
          /\ UNCHANGED <<sessionActive, sessionId, messages, nextId,
                         sessionWarningTimer, sessionTimeoutTimer, idleTimeoutTimer,
                         idleGracePeriodTimer, idleWarningShown, reconnectAttempts,
                         connection, webrtc, tasks>>
          /\ emitted' = <<>> ]_vars

\* the transport was lost during an active session, whose timers are still pending
C33_Witness ==
    /\ sessionActive
    /\ stateChanges = <<"disconnected", "reconnecting">>
    /\ reconnectTimer # NoTimer
    /\ sessionTimeoutTimer # NoTimer
    /\ idleTimeoutTimer # NoTimer

(***************************************************************************)
(* Reconnection left to itself: no call from the page, timers fire and     *)
(* every connect attempt settles.                                          *)
(***************************************************************************)
NextRetry ==
    \/ AdapterConnected
    \/ AdapterRejected
    \/ AdapterClosed
    \/ ReconnectFire

SpecRetry ==
    /\ InitReconnect
    /\ [][NextRetry]_vars
    /\ WF_vars(ReconnectFire)
    /\ WF_vars(AdapterConnected \/ AdapterRejected)

\* the attempts the policy still allows can all be made with the adapters left
WithinAdapters ==
    MaxReconnectAttempts - reconnectAttempts <= MaxAdapters + 1 - FreshAdapter(Cur)

Retrying == state \in {"reconnecting", "connecting"}

\* connected, or given up: in error with no further attempt scheduled
Settled == state = "connected" \/ (state = "error" /\ reconnectTimer = NoTimer)

\* C34: with reconnection enabled, a controller that is reconnecting or connecting
\* after a transport loss or a failed connect eventually is connected, or is in
\* the error state with no further attempt scheduled, provided timers fire and
\* every connect attempt settles.
C34_RetryEnds == (config.reconnect /\ Retrying /\ WithinAdapters) ~> Settled

\* a retry was made on a second adapter after the first attempt failed, and it
\* ended: connected, or in error with the attempts used up
C34_Witness ==
    /\ config.reconnect
    /\ adapters[2] # "unused"
    /\ Settled
    /\ state = "error" => reconnectAttempts >= MaxReconnectAttempts

(***************************************************************************)
(* Voice over a DDP transport with reconnection: the transport can be lost *)
(* while a voice engine is live.                                           *)
(***************************************************************************)
VoiceReconnectConfigs ==
    { Features(TRUE, TRUE, TRUE, Disabled, idle) : idle \in BOOLEAN }

InitVoiceReconnect == InitWith(VoiceReconnectConfigs, <<>>)

NextVoiceReconnect ==
    \/ StartSession
    \/ EndSessionCall
    \/ AdapterConnected
    \/ AdapterRejected
    \/ AdapterClosed
    \/ ReconnectFire
    \/ EngineKey
    \/ EngineReady
    \/ EngineFailed
    \/ DataChannelOpen
    \/ MicDone
    \/ CleanupDone

SpecVoiceReconnect == InitVoiceReconnect /\ [][NextVoiceReconnect]_vars

\* the engines that hold a peer connection (created in setupWebRTC, closed by
\* cleanup)
LiveEngines == {e \in Ids : engines[e].status \in {"negotiating", "ready"}}

\* C35: at most one voice engine holds an open peer connection, and whenever the
\* controller constructs a new voice engine the engine it held before has been
\* cleaned up.
C35_OneLiveEngine ==
    [][ /\ Cardinality(LiveEngines') <= 1
        /\ (webrtc' # webrtc /\ webrtc' # NoRef /\ webrtc # NoRef) =>
               engines[webrtc].status = "closed" ]_vars

(***************************************************************************)
(* The microphone of one WebRTCManager.  startRecording suspends at        *)
(* getUserMedia and again at sender.replaceTrack; stopRecording and        *)
(* cleanup may run in between, and startRecording may be called again.     *)
(***************************************************************************)
\* startRecording up to `await getUserMedia`
StartRecording(m, r) ==
    IF m.isRecording THEN [Begin(m) EXCEPT !.requests[r] = "skipped", !.stopped = FALSE]
    ELSE [StopTracks(Begin(m)) EXCEPT !.requests[r] = "media", !.stopped = FALSE]

\* startRecording after getUserMedia settled: a rejection is rethrown; a stream is
\* stored in this.mediaStream, over whatever is there, and with a peer connection
\* its track is handed to the sender (`await sender.replaceTrack`)
MediaSettled(m, r, granted) ==
    IF ~granted THEN [Begin(m) EXCEPT !.requests[r] = "failed"]
    ELSE LET a == [Begin(m) EXCEPT !.live = @ \cup {r}, !.mediaStream = r]
         IN  IF a.pc THEN [a EXCEPT !.requests[r] = "replace"]
             ELSE [a EXCEPT !.requests[r] = "done", !.isRecording = TRUE]

\* startRecording after replaceTrack settled: it rejects on a closed connection
TrackReplaced(m, r) ==
    IF m.pc
    THEN [Begin(m) EXCEPT !.requests[r] = "done", !.senderTrack = r, !.isRecording = TRUE]
    ELSE [Begin(m) EXCEPT !.requests[r] = "failed"]

StartRecordingCall ==
    \E r \in RequestIds :
        /\ manager.requests[r] = "none"
        /\ \A q \in RequestIds : q < r => manager.requests[q] # "none"
        /\ ManagerStep(StartRecording(manager, r))

MediaSettles ==
    \E r \in RequestIds, granted \in BOOLEAN :
        /\ manager.requests[r] = "media"
        /\ ManagerStep(MediaSettled(manager, r, granted))

TrackReplaces ==
    \E r \in RequestIds :
        /\ manager.requests[r] = "replace"
        /\ ManagerStep(TrackReplaced(manager, r))

StopRecordingCall ==
    \E m \in {StopRecording(Begin(manager))} :
        ManagerStep([m EXCEPT !.stopped = TRUE])

NextMic ==
    \/ StartRecordingCall
    \/ MediaSettles
    \/ TrackReplaces
    \/ StopRecordingCall
    \/ ChannelOpen
    \/ CleanupCall
    \/ CleanupResume

SpecMic == InitManager /\ [][NextMic]_vars

\* C36: no microphone capture is orphaned: at most one captured stream is live at
\* any moment, and from the completion of stopRecording() or cleanup() until
\* startRecording() is called again no microphone track is live and the engine is
\* not recording.
C36_NoOrphanedMicrophone ==
    /\ Cardinality(manager.live) <= 1
    /\ manager.stopped => manager.live = {} /\ ~manager.isRecording

\* what a step of cleanup() did, as observed
Has(seq, x) == \E i \in DOMAIN seq : seq[i] = x

\* every b of the step comes after an a of the same step
Before(seq, a, b) ==
    \A j \in DOMAIN seq : seq[j] = b => \E i \in 1..(j - 1) : seq[i] = a

\* cleanup() has run to its end in the step taken
CleanupCompleted == Has(manager.steps, "flag:off")

\* C37: cleanup() tears down in order: it raises the cleanup flag before doing
\* anything else; it sends the buffer-clear events only with an open data channel
\* and before the peer connection is closed; it stops recording before it closes
\* the peer connection; it clears the flag last.  When a cleanup() completes the
\* engine holds no peer connection, data channel, media stream or credential, is
\* not recording, and the flag is false.
C37_CleanupInOrder ==
    [][ /\ CleanupCall => Head(manager'.steps) = "flag:on"
        /\ Has(manager'.steps, "stopEvents") =>
              /\ manager.dc = "open" /\ manager.pc
              /\ ~Has(manager'.steps, "pc.close")
        /\ Has(manager'.steps, "pc.close") =>
              /\ Before(manager'.steps, "stopRecording", "pc.close")
              /\ manager.pc /\ ~manager'.pc
        /\ CleanupCompleted' =>
              /\ manager'.steps[Len(manager'.steps)] = "flag:off"
              /\ ~manager'.pc /\ manager'.dc = "closed"
              /\ manager'.mediaStream = NoRef /\ ~manager'.session
              /\ ~manager'.isRecording /\ ~manager'.isCleaningUp
      ]_vars

\* a cleanup() that sent the buffer-clear events and waited has completed, and it
\* stopped a microphone that was recording
C37_Witness ==
    /\ manager.steps = <<"stopRecording", "pc.close", "flag:off">>
    /\ manager.cleanups = 0
    /\ manager.stopped
    /\ \E r \in RequestIds : manager.requests[r] = "done"

(***************************************************************************)
(* Method calls of one DDPAdapter.  call() registers its promise in        *)
(* pendingCalls, sends the method message if the socket is open and arms a *)
(* 30 s timer that is never cancelled; the result message, the timer and   *)
(* cleanup() (socket closed, disconnect()) all work on pendingCalls.       *)
(***************************************************************************)
\* call(method, params)
DDPCall(d, c) ==
    [d EXCEPT !.calls[c] = [issued |-> TRUE, sent |-> d.ws = "open", pending |-> TRUE,
                            timer |-> 0, settled |-> <<>>]]

\* handleMethodResult: a result for an id that is not in pendingCalls is ignored
DDPHandleMethodResult(d, c, error) ==
    IF ~d.calls[c].pending THEN d
    ELSE [d EXCEPT !.calls[c].pending = FALSE,
                   !.calls[c].settled = Append(@, IF error THEN "error" ELSE "result")]

\* the timer callback of call(): it rejects only if the id is still in pendingCalls
DDPCallTimeout(d, c) ==
    IF ~d.calls[c].pending THEN [d EXCEPT !.calls[c].timer = NoTimer]
    ELSE [d EXCEPT !.calls[c].timer = NoTimer, !.calls[c].pending = FALSE,
                   !.calls[c].settled = Append(@, "timeout")]

\* cleanup(): this.pendingCalls.clear()
DDPCleanup(d) ==
    [d EXCEPT !.calls = [c \in MethodIds |-> [@[c] EXCEPT !.pending = FALSE]]]

\* ws.onclose and disconnect(): cleanup(), the socket is gone
DDPDisconnect(d) == [DDPCleanup(d) EXCEPT !.ws = "closed"]

DDPStep(d) ==
    /\ ddpAdapter' = d
    /\ UNCHANGED <<config, state, connection, webrtc, adapters, engines, messages,
                   nextId, reconnectAttempts, reconnectTimer, sessionActive, sessionId,
                   sessionTimeoutTimer, sessionWarningTimer, idleTimeoutTimer,
                   idleGracePeriodTimer, idleWarningShown, greetingListeners, tasks,
                   starts, lastOp, activity, emitted, sent, sinceStarted,
                   sinceActivity, lastSessionEvent, warned, stale, stateChanges,
                   events, lastEmit, manager, audioPlayer, connectionWait>>

MethodCall ==
    \E c \in MethodIds :
        /\ ~ddpAdapter.calls[c].issued
        /\ \A b \in MethodIds : b < c => ddpAdapter.calls[b].issued
        /\ DDPStep(DDPCall(ddpAdapter, c))

\* the server answers a method message it received
MethodResult ==
    \E c \in MethodIds, error \in BOOLEAN :
        /\ ddpAdapter.ws = "open"
        /\ ddpAdapter.calls[c].sent
        /\ DDPStep(DDPHandleMethodResult(ddpAdapter, c, error))

MethodTimeout ==
    \E c \in MethodIds :
        /\ ddpAdapter.calls[c].timer = MethodTimeoutMs
        /\ DDPStep(DDPCallTimeout(ddpAdapter, c))

SocketCloses ==
    /\ ddpAdapter.ws = "open"
    /\ DDPStep(DDPDisconnect(ddpAdapter))

AdapterDisconnectCall ==
    \E d \in {DDPDisconnect(ddpAdapter)} : DDPStep(d)

\* time passes, up to the next timer that is due
MethodTick ==
    /\ \E c \in MethodIds : ddpAdapter.calls[c].timer # NoTimer
    /\ \A c \in MethodIds : ddpAdapter.calls[c].timer # MethodTimeoutMs
    /\ DDPStep([ddpAdapter EXCEPT !.calls = [c \in MethodIds |->
                   [@[c] EXCEPT !.timer = IF @ = NoTimer THEN @ ELSE @ + MethodTickMs]]])

NextDDP ==
    \/ MethodCall
    \/ MethodResult
    \/ MethodTimeout
    \/ SocketCloses
    \/ AdapterDisconnectCall
    \/ MethodTick

SpecDDP == InitManager /\ [][NextDDP]_vars

\* C38: every method call() settles exactly once: its promise is never settled
\* twice, and 30 s after the call was issued it has been resolved with the result,
\* rejected with the server's error or rejected with the timeout, also when the
\* socket closed or disconnect() was called meanwhile.
C38_CallSettlesOnce ==
    \A c \in MethodIds :
        /\ Len(ddpAdapter.calls[c].settled) <= 1
        /\ (ddpAdapter.calls[c].issued /\ ddpAdapter.calls[c].timer = NoTimer) =>
               Len(ddpAdapter.calls[c].settled) = 1

(***************************************************************************)
(* Audio playback.  initialize() creates an AudioContext, whose clock      *)
(* starts at 0, and an AudioPlayer on it; handleAudioOutput plays a chunk  *)
(* if there is a player; cleanup() resets the player and drops it.         *)
(***************************************************************************)
\* new AudioContext(); new AudioPlayer(context): nextStartTime = context.currentTime
NewAudioPlayer(p) ==
    [p EXCEPT !.exists = TRUE, !.currentTime = 0, !.nextStartTime = 0,
              !.scheduled = <<>>]

\* variant: play starts every chunk at the cursor, wherever the clock is
Play_AtCursor(p, duration) ==
    IF duration = 0 THEN p
    ELSE [p EXCEPT !.scheduled = Append(@, <<p.nextStartTime, p.nextStartTime + duration>>),
                   !.nextStartTime = p.nextStartTime + duration]

\* AudioPlayer.play: source.start(max(currentTime, nextStartTime)), then the
\* cursor is moved to the end of the chunk
Play(p, duration) ==
    IF duration = 0 THEN p
    ELSE LET startTime == Max(p.currentTime, p.nextStartTime)
         IN  [p EXCEPT !.scheduled = Append(@, <<startTime, startTime + duration>>),
                       !.nextStartTime = startTime + duration]

\* WebRTCManager.cleanup: audioPlayer.cleanup() (nextStartTime = 0), audioPlayer = null
DropAudioPlayer(p) == [p EXCEPT !.exists = FALSE, !.nextStartTime = 0]

PlayerStep(p) ==
    /\ audioPlayer' = p
    /\ UNCHANGED <<config, state, connection, webrtc, adapters, engines, messages,
                   nextId, reconnectAttempts, reconnectTimer, sessionActive, sessionId,
                   sessionTimeoutTimer, sessionWarningTimer, idleTimeoutTimer,
                   idleGracePeriodTimer, idleWarningShown, greetingListeners, tasks,
                   starts, lastOp, activity, emitted, sent, sinceStarted,
                   sinceActivity, lastSessionEvent, warned, stale, stateChanges,
                   events, lastEmit, manager, ddpAdapter, connectionWait>>

PlayerCreated ==
    /\ ~audioPlayer.exists
    /\ audioPlayer.chunks < MaxChunks
    /\ PlayerStep(NewAudioPlayer(audioPlayer))

\* handleAudioOutput: `if (this.audioPlayer) this.audioPlayer.play(audioData)`
AudioOutput(duration) ==
    /\ audioPlayer.chunks < MaxChunks
    /\ PlayerStep([(IF audioPlayer.exists THEN Play(audioPlayer, duration)
                    ELSE audioPlayer) EXCEPT !.chunks = @ + 1])

AudioArrives == \E duration \in Durations : AudioOutput(duration)

ClockAdvances ==
    \E step \in ClockSteps :
        /\ audioPlayer.exists
        /\ audioPlayer.currentTime + step <= MaxClockMs
        /\ PlayerStep([audioPlayer EXCEPT !.currentTime = @ + step])

PlayerCleanup ==
    /\ audioPlayer.exists
    /\ PlayerStep(DropAudioPlayer(audioPlayer))

NextPlayer ==
    \/ PlayerCreated
    \/ AudioArrives
    \/ ClockAdvances
    \/ PlayerCleanup

SpecPlayer == InitManager /\ [][NextPlayer]_vars

\* C39: every decoded chunk played is scheduled to start at
\* max(currentTime, nextStartTime) and the cursor then moves to that start plus
\* the chunk's duration; hence, as long as the player lives, the cursor never
\* decreases, no chunk is scheduled in the past, and chunk k+1 never starts
\* before chunk k ends.
C39_ChunksInOrder ==
    [][ /\ \A duration \in Durations \ {0} :
              (AudioOutput(duration) /\ audioPlayer.exists) =>
                 LET n == Len(audioPlayer'.scheduled)
                     start == audioPlayer'.scheduled[n][1]
                 IN  /\ n = Len(audioPlayer.scheduled) + 1
                     /\ start = Max(audioPlayer.currentTime, audioPlayer.nextStartTime)
                     /\ audioPlayer'.nextStartTime = start + duration
                     /\ audioPlayer'.scheduled[n][2] = start + duration
                     /\ start >= audioPlayer.currentTime
                     /\ n > 1 => start >= audioPlayer.scheduled[n - 1][2]
        /\ (audioPlayer.exists /\ audioPlayer'.exists) =>
              audioPlayer'.nextStartTime >= audioPlayer.nextStartTime
      ]_vars

\* a chunk was started at the clock, after the cursor had fallen behind it, and
\* an earlier one at the cursor, ahead of the clock
C39_Witness ==
    /\ Len(audioPlayer.scheduled) = 3
    /\ audioPlayer.scheduled[2][1] = audioPlayer.scheduled[1][2]
    /\ audioPlayer.scheduled[3][1] > audioPlayer.scheduled[2][2]
    /\ audioPlayer.scheduled[3][1] = audioPlayer.currentTime

(***************************************************************************)
(* waitForConnection.  It arms the 30 s ceiling and runs checkConnection,  *)
(* which resolves on 'connected', rejects on 'failed' and otherwise        *)
(* schedules itself again 100 ms later.  The peer connection changes state *)
(* on its own and may be discarded by cleanup() (this.pc = null).          *)
(***************************************************************************)
\* RTCPeerConnection.connectionState as it may change
PcTransitions ==
    { <<"new", "connecting">>, <<"connecting", "connected">>,
      <<"connecting", "failed">>, <<"connected", "disconnected">>,
      <<"disconnected", "connected">>, <<"disconnected", "failed">> }

\* resolve() / reject(): a promise settles once
Settle(w, outcome) == IF w.promise = "pending" THEN [w EXCEPT !.promise = outcome] ELSE w

\* checkConnection
CheckConnection(w) ==
    IF w.pc = "connected" THEN Settle([w EXCEPT !.timeout = NoTimer], "resolved")
    ELSE IF w.pc = "failed" THEN Settle([w EXCEPT !.timeout = NoTimer], "rejected")
    ELSE [w EXCEPT !.poll = 0]

\* waitForConnection(): the promise, the ceiling, the first check
WaitForConnection(w) ==
    CheckConnection([w EXCEPT !.promise = "pending", !.timeout = 0])

\* the callback of the 30 s ceiling
ConnectionTimeout(w) == Settle([w EXCEPT !.timeout = NoTimer], "rejected")

WaitStep(w) ==
    /\ connectionWait' = w
    /\ UNCHANGED <<config, state, connection, webrtc, adapters, engines, messages,
                   nextId, reconnectAttempts, reconnectTimer, sessionActive, sessionId,
                   sessionTimeoutTimer, sessionWarningTimer, idleTimeoutTimer,
                   idleGracePeriodTimer, idleWarningShown, greetingListeners, tasks,
                   starts, lastOp, activity, emitted, sent, sinceStarted,
                   sinceActivity, lastSessionEvent, warned, stale, stateChanges,
                   events, lastEmit, manager, ddpAdapter, audioPlayer>>

WaitBegins ==
    /\ connectionWait.promise = "none"
    /\ connectionWait.pc # "gone"
    /\ WaitStep(WaitForConnection(connectionWait))

PollFires ==
    /\ connectionWait.poll = PollIntervalMs
    /\ WaitStep(CheckConnection([connectionWait EXCEPT !.poll = NoTimer]))

CeilingFires ==
    /\ connectionWait.timeout = ConnectionTimeoutMs
    /\ WaitStep(ConnectionTimeout(connectionWait))

PcChanges ==
    \E tr \in PcTransitions :
        /\ connectionWait.pc = tr[1]
        /\ WaitStep([connectionWait EXCEPT !.pc = tr[2]])

\* cleanup(): this.pc.close(); this.pc = null
PcDiscarded ==
    /\ connectionWait.pc # "gone"
    /\ WaitStep([connectionWait EXCEPT !.pc = "gone"])

\* 100 ms pass, up to the next timer that is due
WaitTick ==
    /\ connectionWait.timeout # NoTimer \/ connectionWait.poll # NoTimer
    /\ connectionWait.timeout # ConnectionTimeoutMs
    /\ connectionWait.poll # PollIntervalMs
    /\ WaitStep([connectionWait EXCEPT
                   !.timeout = IF @ = NoTimer THEN @ ELSE @ + PollIntervalMs,
                   !.poll = IF @ = NoTimer THEN @ ELSE @ + PollIntervalMs])

NextWait ==
    \/ WaitBegins
    \/ PollFires
    \/ CeilingFires
    \/ PcChanges
    \/ PcDiscarded
    \/ WaitTick

SpecWait == InitManager /\ [][NextWait]_vars

\* C40: the connection-state polling terminates: once the wait has resolved or
\* rejected (state failed, or the 30 s ceiling reached) no 100 ms poll is
\* scheduled, whatever the peer connection does and also when it was discarded.
C40_PollingEnds ==
    connectionWait.promise \in {"resolved", "rejected"} => connectionWait.poll = NoTimer

====
